---- MODULE Spec2Model ----
(***************************************************************************)
(* A model of SeeSharp's xUnit report pipeline: the camelcase splitter,    *)
(* the gosentence composer, the xunit report builder and Load, and the     *)
(* assert package of its tests.                                            *)
(*                                                                         *)
(* Go strings are modelled as sequences of bytes, indexed from 0 through   *)
(* At, as the Go code indexes them.  An ASCII byte is written as its       *)
(* character, a byte above 0x7F by its hexadecimal value ("xC2").          *)
(***************************************************************************)
EXTENDS Integers, Sequences, FiniteSets, TLC

VARIABLES
    \* camelcase.Split, as a scan over v
    v,            \* the input of Split
    pos,          \* the scan position of Split's loop (0-based)
    wordIndexes,  \* the end indexes recorded so far
    words,        \* the slice Split returns
    spc,          \* where Split is: "new", "scan", "done" ("off": not called)
    \* the functions of a test: hasDisplayName, isNested, groups, friendlyName
    tst,          \* the test they are applied to
    tres,         \* their results, once applied
    tpc,          \* "new", "done" ("off": not applied)
    \* xunit.readResult / assembly.groupTests for one assembly
    asm,          \* the assembly: its collections of tests, in document order
    testMap,      \* assembly.testMap: trait key -> test cases
    uTraits,      \* uniqueTraits: the sorted keys of testMap
    heap,         \* the TestGroup objects allocated so far (a pointer is an index)
    resultSet,    \* groupTests' resultSet: pointers to the top-level groups
    cur,          \* [c, t]: the next test uniqueTraits reads; [b, k]: the bucket and test case groupTests is at
    pc,           \* "off", "start", "index", "bucket", "insert", "done"
    \* gosentence.Transform, as a loop over its words
    sv,           \* the words Transform is given
    noTr,         \* its noTransform arguments
    retVal,       \* the words made so far
    sentence,     \* what Transform returns
    gpc,          \* "loop", "done" ("off": not called)
    \* xunit.Load, called twice, each call on its own reader
    rdr,          \* per call: what its reader holds
    result,       \* per call: the tree unmarshal gave it
    testRun,      \* per call: the TestRun readResult is building
    ret,          \* per call: what Load returned
    lpc,          \* per call: "new", "read", "keys", "done" ("off": not called)
    \* assert.Equal on a testing.TB
    args,         \* got, want, name and msg of the call
    tb,           \* the testing.TB: whether Fatalf was called, and with what
    apc,          \* "new", "done", "panic" ("off": not called)
    \* main
    logFile,      \* what os.Open finds: no file, or a file with its content
    mainRes,      \* main's locals: the error of Open, resultSet and err of Load
    reads,        \* the fields of resultSet read since Load returned
    stdout,       \* what main has printed, line by line
    mpc,          \* where main is ("off": not run)
    \* uniqueTraits on two tests with one trait each
    pair,         \* the two traits
    traitMap,     \* the testMap made of the two tests
    kpc           \* "new", "done" ("off": not called)

vars == <<v, pos, wordIndexes, words, spc, tst, tres, tpc,
          asm, testMap, uTraits, heap, resultSet, cur, pc,
          sv, noTr, retVal, sentence, gpc,
          rdr, result, testRun, ret, lpc,
          args, tb, apc,
          logFile, mainRes, reads, stdout, mpc,
          pair, traitMap, kpc>>

splitVars == <<v, pos, wordIndexes, words, spc>>
testVars == <<tst, tres, tpc>>
loadVars == <<asm, testMap, uTraits, heap, resultSet, cur, pc>>
sentVars == <<sv, noTr, retVal, sentence, gpc>>
callVars == <<rdr, result, testRun, ret, lpc>>
assertVars == <<args, tb, apc>>
mainVars == <<logFile, mainRes, reads, stdout, mpc>>
traitVars == <<pair, traitMap, kpc>>

----------------------------------------------------------------------------
(* Characters.  Ascii lists the characters of the model in byte order.     *)

UpperChars == <<"A", "B", "C", "D", "E", "F", "G", "H", "I", "J", "K", "L", "M",
                "N", "O", "P", "Q", "R", "S", "T", "U", "V", "W", "X", "Y", "Z">>

LowerChars == <<"a", "b", "c", "d", "e", "f", "g", "h", "i", "j", "k", "l", "m",
                "n", "o", "p", "q", "r", "s", "t", "u", "v", "w", "x", "y", "z">>

DigitChars == <<"0", "1", "2", "3", "4", "5", "6", "7", "8", "9">>

Ascii == <<" ", "(", ")", "+", ",", "-", ".">> \o DigitChars \o <<":">>
         \o UpperChars \o <<"_">> \o LowerChars

\* The bytes above 0x7F of the model, in byte order.  rune(b) of such a byte
\* is the Latin-1 character of that value: U+00A0 is a space, U+00A1 is
\* punctuation, U+00C2 an uppercase and U+00E2 a lowercase letter.
HighBytes == <<"xA0", "xA1", "xC2", "xE2">>

Range(s) == {s[i] : i \in DOMAIN s}

Min(S) == CHOOSE x \in S : \A y \in S : x <= y

Max(S) == CHOOSE x \in S : \A y \in S : x >= y

\* The byte value order of two characters (Go compares strings bytewise).
Code(c) == CHOOSE i \in DOMAIN Ascii : Ascii[i] = c

IsUpper(c) == c \in Range(UpperChars) \cup {"xC2"}

IsLower(c) == c \in Range(LowerChars) \cup {"xE2"}

IsDigit(c) == c \in Range(DigitChars)

IsNumber(c) == c \in Range(DigitChars)

IsSpace(c) == c \in {" ", "xA0"}

\* v[i] of Go: the byte at the 0-based index i.
At(s, i) == s[i + 1]

\* v[a:b] of Go.
Slice(s, a, b) == SubSeq(s, a + 1, b)

\* strings.ToLower on an ASCII byte; a byte above 0x7F is left as it is.
ToLowerChar(c) ==
    IF c \in Range(UpperChars)
    THEN LowerChars[CHOOSE i \in DOMAIN UpperChars : UpperChars[i] = c]
    ELSE c

ToLower(s) == [i \in DOMAIN s |-> ToLowerChar(s[i])]

----------------------------------------------------------------------------
(* Package camelcase.                                                      *)

\* A continuation byte of UTF-8 (0x80..0xBF).
IsCont(c) == c \in {"xA0", "xA1"}

\* The length of the UTF-8 sequence the byte c leads, 0 when c leads none.
SeqLen(c) ==
    IF c \notin Range(HighBytes) THEN 1
    ELSE IF c = "xC2" THEN 2
    ELSE IF c = "xE2" THEN 3
    ELSE 0

\* utf8.ValidString(s[i:])
RECURSIVE ValidFrom(_, _)
ValidFrom(s, i) ==
    IF i >= Len(s) THEN TRUE
    ELSE LET n == SeqLen(At(s, i))
         IN  /\ n > 0
             /\ i + n <= Len(s)
             /\ \A j \in 1..(n - 1) : IsCont(At(s, i + j))
             /\ ValidFrom(s, i + n)

\* utf8.ValidString(s)
ValidString(s) == ValidFrom(s, 0)

\* isValid without the test for valid UTF-8.
isValidNonEmpty(s) == Len(s) > 0

isValid(s) == ValidString(s) /\ Len(s) > 0

\* The index at which the loop of getNumberEndPos stops:
\* for idx = idx + 1; idx < len(v) && unicode.IsNumber(rune(v[idx])); idx++
NumberLoopEnd(s, idx) ==
    Min({j \in (idx + 1)..Len(s) : j = Len(s) \/ ~IsNumber(At(s, j))})

getNumberEndPos(s, idx) == NumberLoopEnd(s, idx) - 1

\* The index at which the first loop of getWordEndPos stops.
UpperLoopEnd(s, idx) ==
    Min({j \in (idx + 1)..Len(s) : j = Len(s) \/ ~IsUpper(At(s, j))})

\* The second loop of getWordEndPos stopping after one step.
LowerLoopEndOne(s, idx) == idx + 1

\* The index at which the second loop of getWordEndPos stops.
LowerLoopEnd(s, idx) ==
    Min({j \in (idx + 1)..Len(s) : j = Len(s) \/ ~IsLower(At(s, j))})

\* getWordEndPos stepping back three places instead of two where the run
\* of uppercase letters is followed by something that is no digit.
getWordEndPosThreeBack(s, idx) ==
    IF idx + 1 < Len(s) /\ IsUpper(At(s, idx + 1))
    THEN LET j == UpperLoopEnd(s, idx)
         IN  IF j < Len(s)
             THEN IF IsDigit(At(s, j)) THEN j - 1 ELSE j - 3
             ELSE j - 1
    ELSE LowerLoopEnd(s, idx) - 1

getWordEndPos(s, idx) ==
    IF idx + 1 < Len(s) /\ IsUpper(At(s, idx + 1))
    THEN LET j == UpperLoopEnd(s, idx)
         IN  IF j < Len(s)
             THEN IF IsDigit(At(s, j)) THEN j - 1 ELSE j - 2
             ELSE j - 1
    ELSE LowerLoopEnd(s, idx) - 1

\* The index at which the loop of getSpaceEndPos stops.
SpaceLoopEnd(s, idx) ==
    Min({j \in (idx + 1)..Len(s) : j = Len(s) \/ ~IsSpace(At(s, j))})

getSpaceEndPos(s, idx) == SpaceLoopEnd(s, idx) - 1

\* Which branch of Split's loop body the byte at p takes.
Branch(s, p) ==
    IF IsNumber(At(s, p)) THEN "number"
    ELSE IF IsUpper(At(s, p)) \/ IsLower(At(s, p)) THEN "word"
    ELSE IF IsSpace(At(s, p)) THEN "space"
    ELSE "other"

\* The end position the loop body computes at p (p itself when no branch is taken).
EndPos(s, p) ==
    CASE Branch(s, p) = "number" -> getNumberEndPos(s, p)
      [] Branch(s, p) = "word" -> getWordEndPos(s, p)
      [] Branch(s, p) = "space" -> getSpaceEndPos(s, p)
      [] OTHER -> p

RECURSIVE extractFrom(_, _, _)
extractFrom(s, endIndexes, i) ==
    IF i > Len(endIndexes) THEN <<>>
    ELSE LET endIndex == endIndexes[i]
             startIndex == IF i = 1 THEN 0 ELSE endIndexes[i - 1]
         IN  IF endIndex >= 0 /\ endIndex <= Len(s)
             THEN <<Slice(s, startIndex, endIndex)>> \o extractFrom(s, endIndexes, i + 1)
             ELSE extractFrom(s, endIndexes, i + 1)

extractWordsByIndexes(s, endIndexes) == extractFrom(s, endIndexes, 1)

\* Split's loop from position p with the indexes idxs recorded so far.
RECURSIVE ScanFrom(_, _, _)
ScanFrom(s, p, idxs) ==
    IF p >= Len(s) THEN idxs
    ELSE LET e == EndPos(s, p)
         IN  ScanFrom(s, e + 1,
                      IF Branch(s, p) = "other" THEN idxs ELSE Append(idxs, e + 1))

Split(s) ==
    IF ~isValid(s) THEN <<s>>
    ELSE extractWordsByIndexes(s, ScanFrom(s, 0, <<>>))

----------------------------------------------------------------------------
(* Split as a scan: one action per branch of the loop body.                *)

MaxLen == 4

SplitAlphabet == {"A", "B", "a", "1", " ", "."} \cup Range(HighBytes)

RECURSIVE Texts(_, _)
Texts(A, n) ==
    IF n = 0 THEN {<<>>}
    ELSE LET T == Texts(A, n - 1)
         IN  T \cup {Append(t, c) : t \in {u \in T : Len(u) = n - 1}, c \in A}

SplitInputs == Texts(SplitAlphabet, MaxLen)

SplitIdle == /\ v = <<>> /\ pos = 0 /\ wordIndexes = <<>> /\ words = <<>> /\ spc = "off"

SplitInit ==
    /\ v \in SplitInputs
    /\ pos = 0
    /\ wordIndexes = <<>>
    /\ words = <<>>
    /\ spc = "new"

SplitInvalid ==
    /\ spc = "new"
    /\ ~isValid(v)
    /\ words' = <<v>>
    /\ spc' = "done"
    /\ UNCHANGED <<v, pos, wordIndexes>>
    /\ UNCHANGED <<testVars, loadVars, sentVars, callVars, assertVars, mainVars, traitVars>>

SplitEnter ==
    /\ spc = "new"
    /\ isValid(v)
    /\ spc' = "scan"
    /\ UNCHANGED <<v, pos, wordIndexes, words>>
    /\ UNCHANGED <<testVars, loadVars, sentVars, callVars, assertVars, mainVars, traitVars>>

SplitNumber ==
    /\ spc = "scan"
    /\ pos < Len(v)
    /\ IsNumber(At(v, pos))
    /\ LET endPos == getNumberEndPos(v, pos)
       IN  /\ wordIndexes' = Append(wordIndexes, endPos + 1)
           /\ pos' = endPos + 1
    /\ UNCHANGED <<v, words, spc>>
    /\ UNCHANGED <<testVars, loadVars, sentVars, callVars, assertVars, mainVars, traitVars>>

SplitWord ==
    /\ spc = "scan"
    /\ pos < Len(v)
    /\ ~IsNumber(At(v, pos))
    /\ IsUpper(At(v, pos)) \/ IsLower(At(v, pos))
    /\ LET endPos == getWordEndPos(v, pos)
       IN  /\ wordIndexes' = Append(wordIndexes, endPos + 1)
           /\ pos' = endPos + 1
    /\ UNCHANGED <<v, words, spc>>
    /\ UNCHANGED <<testVars, loadVars, sentVars, callVars, assertVars, mainVars, traitVars>>

SplitSpace ==
    /\ spc = "scan"
    /\ pos < Len(v)
    /\ Branch(v, pos) = "space"
    /\ LET endPos == getSpaceEndPos(v, pos)
       IN  /\ wordIndexes' = Append(wordIndexes, endPos + 1)
           /\ pos' = endPos + 1
    /\ UNCHANGED <<v, words, spc>>
    /\ UNCHANGED <<testVars, loadVars, sentVars, callVars, assertVars, mainVars, traitVars>>

SplitOther ==
    /\ spc = "scan"
    /\ pos < Len(v)
    /\ Branch(v, pos) = "other"
    /\ pos' = pos + 1
    /\ UNCHANGED <<v, wordIndexes, words, spc>>
    /\ UNCHANGED <<testVars, loadVars, sentVars, callVars, assertVars, mainVars, traitVars>>

SplitReturn ==
    /\ spc = "scan"
    /\ pos >= Len(v)
    /\ words' = extractWordsByIndexes(v, wordIndexes)
    /\ spc' = "done"
    /\ UNCHANGED <<v, pos, wordIndexes>>
    /\ UNCHANGED <<testVars, loadVars, sentVars, callVars, assertVars, mainVars, traitVars>>

SplitNext ==
    \/ SplitInvalid
    \/ SplitEnter
    \/ SplitNumber
    \/ SplitWord
    \/ SplitSpace
    \/ SplitOther
    \/ SplitReturn

----------------------------------------------------------------------------
(* Package gosentence.                                                     *)

\* strings.Join(elems, sep)
RECURSIVE Join(_, _)
Join(elems, sep) ==
    IF Len(elems) = 0 THEN <<>>
    ELSE IF Len(elems) = 1 THEN elems[1]
    ELSE elems[1] \o sep \o Join(Tail(elems), sep)

\* The loop body of Transform lower-casing the first word as well.
TransformWordLowerFirst(idx, word, noTransform) ==
    IF word \in noTransform THEN word ELSE ToLower(word)

\* What the loop body of Transform appends for the word at the 0-based idx.
TransformWord(idx, word, noTransform) ==
    IF idx = 0 THEN word
    ELSE IF word \in noTransform THEN word
    ELSE ToLower(word)

Transform(ws, noTransform) ==
    Join([i \in DOMAIN ws |-> TransformWord(i - 1, ws[i], noTransform)], <<" ">>)

----------------------------------------------------------------------------
(* Transform as a loop: one action per branch of its body.                 *)

MaxWords == 3

\* The empty word of TestName's first case, and short words of every
\* letter case.
WordPool == {<<>>, <<"A">>, <<"O", "f">>, <<"I", "D">>, <<"i", "d">>}

CollectionWords ==
    << <<"A">>, <<"C", "o", "l", "l", "e", "c", "t", "i", "o", "n">>, <<"O", "f">>,
       <<"W", "o", "r", "d", "s">> >>

HTTPWords ==
    << <<"A", "n">>, <<"H", "T", "T", "P">>, <<"&">>,
       <<"S", "q", "l", "Q", "u", "e", "r", "y">> >>

SentIdle == /\ sv = <<>> /\ noTr = {} /\ retVal = <<>> /\ sentence = <<>> /\ gpc = "off"

SentInit ==
    /\ \/ sv = CollectionWords /\ noTr = {}
       \/ sv = HTTPWords /\ noTr = {HTTPWords[2], HTTPWords[4]}
       \/ \E n \in 0..MaxWords : sv \in [1..n -> WordPool] /\ noTr \in SUBSET WordPool
    /\ retVal = <<>>
    /\ sentence = <<>>
    /\ gpc = "loop"

\* idx == 0
TransformFirst ==
    /\ gpc = "loop"
    /\ Len(retVal) < Len(sv)
    /\ Len(retVal) = 0
    /\ retVal' = Append(retVal, TransformWord(Len(retVal), sv[Len(retVal) + 1], noTr))
    /\ UNCHANGED <<sv, noTr, sentence, gpc>>
    /\ UNCHANGED <<splitVars, testVars, loadVars, callVars, assertVars, mainVars, traitVars>>

\* slices.Contains(noTransform, word)
TransformKeep ==
    /\ gpc = "loop"
    /\ Len(retVal) < Len(sv)
    /\ Len(retVal) # 0
    /\ sv[Len(retVal) + 1] \in noTr
    /\ retVal' = Append(retVal, TransformWord(Len(retVal), sv[Len(retVal) + 1], noTr))
    /\ UNCHANGED <<sv, noTr, sentence, gpc>>
    /\ UNCHANGED <<splitVars, testVars, loadVars, callVars, assertVars, mainVars, traitVars>>

\* strings.ToLower(word)
TransformLower ==
    /\ gpc = "loop"
    /\ Len(retVal) < Len(sv)
    /\ Len(retVal) # 0
    /\ sv[Len(retVal) + 1] \notin noTr
    /\ retVal' = Append(retVal, TransformWord(Len(retVal), sv[Len(retVal) + 1], noTr))
    /\ UNCHANGED <<sv, noTr, sentence, gpc>>
    /\ UNCHANGED <<splitVars, testVars, loadVars, callVars, assertVars, mainVars, traitVars>>

\* return strings.Join(retVal, " ")
TransformReturn ==
    /\ gpc = "loop"
    /\ Len(retVal) = Len(sv)
    /\ sentence' = Join(retVal, <<" ">>)
    /\ gpc' = "done"
    /\ UNCHANGED <<sv, noTr, retVal>>
    /\ UNCHANGED <<splitVars, testVars, loadVars, callVars, assertVars, mainVars, traitVars>>

SentNext == TransformFirst \/ TransformKeep \/ TransformLower \/ TransformReturn

----------------------------------------------------------------------------
(* Package strings, as far as package xunit uses it.                       *)

\* strings.Contains(s, substr)
Contains(s, substr) ==
    \E i \in 0..(Len(s) - Len(substr)) : Slice(s, i, i + Len(substr)) = substr

\* strings.LastIndex(s, c) for a one-byte c: -1 when c is not in s.
LastIndex(s, c) == Max({-1} \cup {i \in 0..(Len(s) - 1) : At(s, i) = c})

\* strings.Index(s, c) for a one-byte c: -1 when c is not in s.
Index(s, c) ==
    IF \E i \in 0..(Len(s) - 1) : At(s, i) = c
    THEN Min({i \in 0..(Len(s) - 1) : At(s, i) = c})
    ELSE -1

\* strings.Split(s, sep) for a one-byte sep.
RECURSIVE StringsSplit(_, _)
StringsSplit(s, sep) ==
    LET i == Index(s, sep)
    IN  IF i < 0 THEN <<s>>
        ELSE <<Slice(s, 0, i)>> \o StringsSplit(Slice(s, i + 1, Len(s)), sep)

----------------------------------------------------------------------------
(* Package xunit: the functions of a test and of a trait.                  *)
(* A test is [Name, Type, Result, Time, Traits]; a trait is [Name, Value]. *)

hasDisplayName(t) == ~Contains(t.Name, t.Type)

\* isNested without the test for a display name.
isNestedPlusOnly(t) == Contains(t.Name, <<"+">>)

isNested(t) == ~hasDisplayName(t) /\ Contains(t.Name, <<"+">>)

\* groups taking the first segment from its first '.' on instead of its last.
groupsFirstDot(t) ==
    IF ~isNested(t) THEN <<>>
    ELSE LET groupName == StringsSplit(t.Name, "+")
             n == Len(groupName)
             groupNameParts ==
                 <<Slice(groupName[1], Index(groupName[1], ".") + 1, Len(groupName[1]))>>
                 \o SubSeq(groupName, 2, n - 1)
                 \o <<StringsSplit(groupName[n], ".")[1]>>
         IN  [i \in DOMAIN groupNameParts |-> Transform(Split(groupNameParts[i]), {})]

\* groups cutting the last segment at its last '.' instead of its first.
groupsLastDot(t) ==
    IF ~isNested(t) THEN <<>>
    ELSE LET groupName == StringsSplit(t.Name, "+")
             n == Len(groupName)
             last == groupName[n]
             groupNameParts ==
                 <<Slice(groupName[1], LastIndex(groupName[1], ".") + 1, Len(groupName[1]))>>
                 \o SubSeq(groupName, 2, n - 1)
                 \o <<IF LastIndex(last, ".") < 0 THEN last
                      ELSE Slice(last, 0, LastIndex(last, "."))>>
         IN  [i \in DOMAIN groupNameParts |-> Transform(Split(groupNameParts[i]), {})]

groups(t) ==
    IF ~isNested(t) THEN <<>>
    ELSE LET groupName == StringsSplit(t.Name, "+")
             n == Len(groupName)
             groupNameParts ==
                 <<Slice(groupName[1], LastIndex(groupName[1], ".") + 1, Len(groupName[1]))>>
                 \o SubSeq(groupName, 2, n - 1)
                 \o <<StringsSplit(groupName[n], ".")[1]>>
         IN  [i \in DOMAIN groupNameParts |-> Transform(Split(groupNameParts[i]), {})]

\* friendlyName cutting at the first '(' instead of the last.
testFriendlyNameFirstParen(t) ==
    IF hasDisplayName(t) THEN t.Name
    ELSE LET afterDot == Slice(t.Name, LastIndex(t.Name, ".") + 1, Len(t.Name))
             fnName == IF "(" \in Range(afterDot)
                       THEN Slice(afterDot, 0, Index(afterDot, "("))
                       ELSE afterDot
         IN  Transform(Split(fnName), {})

testFriendlyName(t) ==
    IF hasDisplayName(t) THEN t.Name
    ELSE LET afterDot == Slice(t.Name, LastIndex(t.Name, ".") + 1, Len(t.Name))
             fnName == IF "(" \in Range(afterDot)
                       THEN Slice(afterDot, 0, LastIndex(afterDot, "("))
                       ELSE afterDot
         IN  Transform(Split(fnName), {})

\* friendlyName writing the separator with two spaces after the dash.
traitFriendlyNameDoubleSpace(t) == t.Name \o <<" ", "-", " ", " ">> \o t.Value

traitFriendlyName(t) == t.Name \o <<" ", "-", " ">> \o t.Value

----------------------------------------------------------------------------
(* The functions of a test, applied to one test.                           *)

MaxNameLen == 4

NameAlphabet == {"A", "b", ".", "+", "(", " "}

\* The tests of TestLoad's "complex XML document" (name, type).
DisplayNameTestName ==
    <<"A", " ", "t", "e", "s", "t", " ", "w", "i", "t", "h", " ", "a", " ",
      "d", "i", "s", "p", "l", "a", "y", " ", "n", "a", "m", "e", ".">>

DisplayNameTestType ==
    <<"N", "S">>

PlainTestName ==
    <<"N", "S", "1", ".", "C", "l", "a", "s", "s", ".", "S", "u", "b", "C",
      "l", "a", "s", "s", ".", "T", "e", "s", "t", "C", "l", "a", "s", "s",
      ".", "T", "e", "s", "t", "M", "e", "t", "h", "o", "d">>

PlainTestType ==
    <<"N", "S", "1", ".", "C", "l", "a", "s", "s", ".", "S", "u", "b", "C",
      "l", "a", "s", "s", ".", "T", "e", "s", "t", "C", "l", "a", "s", "s",
      ".", "T", "e", "s", "t", "M", "e", "t", "h", "o", "d">>

ParameterizedTestName ==
    <<"N", "S", "1", ".", "C", "l", "a", "s", "s", ".", "S", "u", "b", "C",
      "l", "a", "s", "s", ".", "T", "e", "s", "t", "C", "l", "a", "s", "s",
      ".", "P", "a", "r", "a", "m", "e", "t", "e", "r", "i", "z", "e", "d",
      "T", "e", "s", "t", "M", "e", "t", "h", "o", "d", "(", "a", "r", "g",
      ":", " ", "n", "u", "l", "l", ")">>

ParameterizedTestType ==
    <<"N", "S", "1", ".", "C", "l", "a", "s", "s", ".", "S", "u", "b", "C",
      "l", "a", "s", "s", ".", "T", "e", "s", "t", "C", "l", "a", "s", "s",
      ".", "P", "a", "r", "a", "m", "e", "t", "e", "r", "i", "z", "e", "d",
      "T", "e", "s", "t", "M", "e", "t", "h", "o", "d">>

NestedTestName ==
    <<"N", "S", "1", ".", "C", "l", "a", "s", "s", ".", "S", "u", "b", "C",
      "l", "a", "s", "s", ".", "T", "e", "s", "t", "C", "l", "a", "s", "s",
      "+", "M", "e", "t", "h", "o", "d", "+", "S", "c", "e", "n", "a", "r",
      "i", "o", "+", "S", "u", "b", "S", "c", "e", "n", "a", "r", "i", "o",
      ".", "R", "e", "s", "u", "l", "t">>

NestedTestType ==
    <<"N", "S", "1", ".", "C", "l", "a", "s", "s", ".", "S", "u", "b", "C",
      "l", "a", "s", "s", ".", "T", "e", "s", "t", "C", "l", "a", "s", "s",
      "+", "M", "e", "t", "h", "o", "d", "+", "S", "c", "e", "n", "a", "r",
      "i", "o", "+", "S", "u", "b", "S", "c", "e", "n", "a", "r", "i", "o">>

NestedTest2Name ==
    <<"N", "S", "1", ".", "C", "l", "a", "s", "s", ".", "S", "u", "b", "C",
      "l", "a", "s", "s", ".", "T", "e", "s", "t", "C", "l", "a", "s", "s",
      "+", "M", "e", "t", "h", "o", "d", "+", "S", "c", "e", "n", "a", "r",
      "i", "o", "2", "+", "S", "u", "b", "S", "c", "e", "n", "a", "r", "i",
      "o", ".", "R", "e", "s", "u", "l", "t">>

NestedTest2Type ==
    <<"N", "S", "1", ".", "C", "l", "a", "s", "s", ".", "S", "u", "b", "C",
      "l", "a", "s", "s", ".", "T", "e", "s", "t", "C", "l", "a", "s", "s",
      "+", "M", "e", "t", "h", "o", "d", "+", "S", "c", "e", "n", "a", "r",
      "i", "o", "2", "+", "S", "u", "b", "S", "c", "e", "n", "a", "r", "i",
      "o">>

\* A parameterized test as in TestLoad, with a decimal number as argument.
DecimalArgTestName == <<"N", "S", ".", "M", "(", "1", ".", "5", ")">>

DecimalArgTestType == <<"N", "S">>

NewTest(name, type, traits) ==
    [Name |-> name, Type |-> type, Result |-> "Pass", Time |-> 0, Traits |-> traits]

CorpusTests ==
    { NewTest(DisplayNameTestName, DisplayNameTestType, <<>>),
      NewTest(DisplayNameTestName, <<>>, <<>>),
      NewTest(PlainTestName, PlainTestType, <<>>),
      NewTest(ParameterizedTestName, ParameterizedTestType, <<>>),
      NewTest(DecimalArgTestName, DecimalArgTestType, <<>>),
      NewTest(NestedTestName, NestedTestType, <<>>),
      NewTest(NestedTest2Name, NestedTest2Type, <<>>) }

\* Every substring of s (the empty one included).
Substrings(s) == {Slice(s, a, b) : a \in 0..Len(s), b \in 0..Len(s)}

\* The types tried with the name n: its substrings, and one that is none.
TypesFor(n) == Substrings(n) \cup {<<"Z">>}

NoResult == [display |-> FALSE, nested |-> FALSE, groups |-> <<>>, name |-> <<>>]

TestIdle == /\ tst = NewTest(<<>>, <<>>, <<>>) /\ tres = NoResult /\ tpc = "off"

TestInit ==
    /\ \/ tst \in CorpusTests
       \/ \E n \in Texts(NameAlphabet, MaxNameLen) :
              \E ty \in TypesFor(n) : tst = NewTest(n, ty, <<>>)
    /\ tres = NoResult
    /\ tpc = "new"

\* uniqueTraits builds a test case from a test with a display name (line 561).
NameVerbatim ==
    /\ tpc = "new"
    /\ hasDisplayName(tst)
    /\ tres' = [display |-> TRUE, nested |-> isNested(tst), groups |-> groups(tst),
                name |-> testFriendlyName(tst)]
    /\ tpc' = "done"
    /\ UNCHANGED tst
    /\ UNCHANGED <<splitVars, loadVars, sentVars, callVars, assertVars, mainVars, traitVars>>

\* uniqueTraits builds a test case from a test without a display name (line 561).
NameDerived ==
    /\ tpc = "new"
    /\ ~hasDisplayName(tst)
    /\ tres' = [display |-> FALSE, nested |-> isNested(tst), groups |-> groups(tst),
                name |-> testFriendlyName(tst)]
    /\ tpc' = "done"
    /\ UNCHANGED tst
    /\ UNCHANGED <<splitVars, loadVars, sentVars, callVars, assertVars, mainVars, traitVars>>

TestNext == NameVerbatim \/ NameDerived

----------------------------------------------------------------------------
(* Package maps.                                                           *)

\* a < b for Go strings: bytewise lexicographic order.
LexLess(a, b) ==
    \E i \in 1..(Len(b)) :
        /\ i <= Len(a) + 1
        /\ \A j \in 1..(i - 1) : a[j] = b[j]
        /\ \/ i = Len(a) + 1
           \/ Code(a[i]) < Code(b[i])

RECURSIVE SortSet(_)
SortSet(S) ==
    IF S = {} THEN <<>>
    ELSE LET m == CHOOSE x \in S : \A y \in S \ {x} : LexLess(x, y)
         IN  <<m>> \o SortSet(S \ {m})

\* maps.SortedKeys(m): the keys of m in ascending order.
SortedKeys(m) == SortSet(DOMAIN m)

----------------------------------------------------------------------------
(* Package xunit: grouping the tests of one assembly.                      *)
(* An assembly is the sequence of its collections, a collection the        *)
(* sequence of its tests.  A test case carries id, the place of its test   *)
(* in the document: it is no field of the code, and only tells the test    *)
(* cases of equal tests apart.                                             *)

MaxTests == 3

TraitCU == [Name |-> <<"C">>, Value |-> <<"U">>]

TraitTS == [Name |-> <<"T">>, Value |-> <<"S">>]

TestPool ==
    { NewTest(<<"A", " ", "t">>, <<"N">>, <<>>),
      NewTest(<<"N", ".", "C", "+", "M", ".", "R">>, <<"N", ".", "C", "+", "M">>, <<>>),
      NewTest(<<"N", ".", "C", "+", "M", "e", ".", "R">>, <<"N", ".", "C", "+", "M", "e">>, <<>>),
      NewTest(<<"N", ".", "T", "m">>, <<"N">>, <<TraitCU>>),
      NewTest(<<"a", "+", "b">>, <<"N">>, <<TraitTS, TraitCU>>),
      NewTest(<<"N", ".", "C", "+", "M", ".", "R">>, <<"N", ".", "C", "+", "M">>, <<TraitCU, TraitCU>>) }

RECURSIVE SeqsUpTo(_, _)
SeqsUpTo(S, n) ==
    IF n = 0 THEN {<<>>}
    ELSE LET Q == SeqsUpTo(S, n - 1)
         IN  Q \cup {Append(q, x) : q \in {u \in Q : Len(u) = n - 1}, x \in S}

\* No collection, or two collections that share the tests out in document order.
Assemblies ==
    {<<>>} \cup UNION { { <<SubSeq(ts, 1, k), SubSeq(ts, k + 1, Len(ts))>> :
                            k \in 0..Len(ts) } :
                          ts \in SeqsUpTo(TestPool, MaxTests) }

hasTests(a) == \E c \in DOMAIN a : Len(a[c]) > 0

\* The tests of the assembly in the order uniqueTraits reads them.
RECURSIVE Flatten(_)
Flatten(a) == IF Len(a) = 0 THEN <<>> ELSE a[1] \o Flatten(Tail(a))

NewTestCase(t, id) ==
    [Name |-> testFriendlyName(t), Result |-> t.Result, Time |-> t.Time,
     groups |-> groups(t), id |-> id]

\* MapAppend putting tc in front of the test cases of the key.
MapPrepend(m, key, tc) ==
    IF key \in DOMAIN m
    THEN [m EXCEPT ![key] = <<tc>> \o @]
    ELSE [k \in DOMAIN m \cup {key} |-> IF k = key THEN <<tc>> ELSE m[k]]

\* append(m[key], tc) on a map
MapAppend(m, key, tc) ==
    IF key \in DOMAIN m
    THEN [m EXCEPT ![key] = Append(@, tc)]
    ELSE [k \in DOMAIN m \cup {key} |-> IF k = key THEN <<tc>> ELSE m[k]]

RECURSIVE AddTraits(_, _, _, _)
AddTraits(m, traits, i, tc) ==
    IF i > Len(traits) THEN m
    ELSE AddTraits(MapAppend(m, traitFriendlyName(traits[i]), tc), traits, i + 1, tc)

\* IndexOne without the bucket "" for a test that has no trait.
IndexOneTraitsOnly(m, t, id) == AddTraits(m, t.Traits, 1, NewTestCase(t, id))

\* The body of uniqueTraits' inner loop for the test t.
IndexOne(m, t, id) ==
    LET tCase == NewTestCase(t, id)
        m1 == IF Len(t.Traits) = 0 THEN MapAppend(m, <<>>, tCase) ELSE m
    IN  AddTraits(m1, t.Traits, 1, tCase)

NewGroup(name) == [Name |-> name, Tests |-> <<>>, Groups |-> <<>>]

\* The output test case: TestCase{Name: tc.Name, Result: tc.Result, Time: tc.Time}
OutCase(tc) == [tc EXCEPT !.groups = <<>>]

\* FindChild that never finds: every step of a path makes a new group.
FindChildNone(h, g, name) == 0

\* The child of the group g named name, 0 (nil) when it has none.
FindChild(h, g, name) ==
    LET hits == {i \in DOMAIN h[g].Groups : h[h[g].Groups[i]].Name = name}
    IN  IF hits = {} THEN 0 ELSE h[g].Groups[Min(hits)]

\* WalkGroups appending the test case to the group of every step of the
\* path, not only to the last one.
RECURSIVE WalkGroupsEveryLevel(_, _, _, _)
WalkGroupsEveryLevel(h, cGroup, tc, idx) ==
    IF idx > Len(tc.groups) THEN h
    ELSE LET found == FindChild(h, cGroup, tc.groups[idx])
             sGroup == IF found = 0 THEN Len(h) + 1 ELSE found
             h1 == IF found = 0
                   THEN Append([h EXCEPT ![cGroup].Groups = Append(@, sGroup)],
                               NewGroup(tc.groups[idx]))
                   ELSE h
             h2 == [h1 EXCEPT ![sGroup].Tests = Append(@, OutCase(tc))]
         IN  WalkGroupsEveryLevel(h2, sGroup, tc, idx + 1)

\* The loop over tc.groups from index idx on, cGroup being the group it is at.
RECURSIVE WalkGroups(_, _, _, _)
WalkGroups(h, cGroup, tc, idx) ==
    IF idx > Len(tc.groups) THEN h
    ELSE LET found == FindChild(h, cGroup, tc.groups[idx])
             sGroup == IF found = 0 THEN Len(h) + 1 ELSE found
             h1 == IF found = 0
                   THEN Append([h EXCEPT ![cGroup].Groups = Append(@, sGroup)],
                               NewGroup(tc.groups[idx]))
                   ELSE h
             h2 == IF idx = Len(tc.groups)
                   THEN [h1 EXCEPT ![sGroup].Tests = Append(@, OutCase(tc))]
                   ELSE h1
         IN  WalkGroups(h2, sGroup, tc, idx + 1)

EmptyMap == [k \in {} |-> <<>>]

LoadIdle ==
    /\ asm = <<>> /\ testMap = EmptyMap /\ uTraits = <<>> /\ heap = <<>>
    /\ resultSet = <<>> /\ cur = [i |-> 0, k |-> 0] /\ pc = "off"

LoadInit ==
    /\ asm \in Assemblies
    /\ testMap = EmptyMap
    /\ uTraits = <<>>
    /\ heap = <<>>
    /\ resultSet = <<>>
    /\ cur = [i |-> 0, k |-> 0]
    /\ pc = "start"

\* groupTests on an assembly without tests.
GroupNoTests ==
    /\ pc = "start"
    /\ ~hasTests(asm)
    /\ resultSet' = <<>>
    /\ pc' = "done"
    /\ UNCHANGED <<asm, testMap, uTraits, heap, cur>>
    /\ UNCHANGED <<splitVars, testVars, sentVars, callVars, assertVars, mainVars, traitVars>>

\* groupTests calls uniqueTraits, which resets the assembly's testMap.
UniqueTraitsEnter ==
    /\ pc = "start"
    /\ hasTests(asm)
    /\ testMap' = EmptyMap
    /\ cur' = [i |-> 1, k |-> 0]
    /\ pc' = "index"
    /\ UNCHANGED <<asm, uTraits, heap, resultSet>>
    /\ UNCHANGED <<splitVars, testVars, sentVars, callVars, assertVars, mainVars, traitVars>>

\* uniqueTraits reads the next test of the assembly.
IndexTest ==
    /\ pc = "index"
    /\ cur.i <= Len(Flatten(asm))
    /\ testMap' = IndexOne(testMap, Flatten(asm)[cur.i], cur.i)
    /\ cur' = [cur EXCEPT !.i = @ + 1]
    /\ UNCHANGED <<asm, uTraits, heap, resultSet, pc>>
    /\ UNCHANGED <<splitVars, testVars, sentVars, callVars, assertVars, mainVars, traitVars>>

\* uniqueTraits returns the sorted keys; groupTests makes its resultSet.
UniqueTraitsReturn ==
    /\ pc = "index"
    /\ cur.i > Len(Flatten(asm))
    /\ uTraits' = SortedKeys(testMap)
    /\ resultSet' = <<>>
    /\ cur' = [i |-> 1, k |-> 0]
    /\ pc' = "bucket"
    /\ UNCHANGED <<asm, testMap, heap>>
    /\ UNCHANGED <<splitVars, testVars, sentVars, callVars, assertVars, mainVars, traitVars>>

\* The outer loop of groupTests makes the group of the next trait.
OpenBucket ==
    /\ pc = "bucket"
    /\ cur.i <= Len(uTraits)
    /\ heap' = Append(heap, NewGroup(uTraits[cur.i]))
    /\ resultSet' = Append(resultSet, Len(heap) + 1)
    /\ cur' = [cur EXCEPT !.k = 1]
    /\ pc' = "insert"
    /\ UNCHANGED <<asm, testMap, uTraits>>
    /\ UNCHANGED <<splitVars, testVars, sentVars, callVars, assertVars, mainVars, traitVars>>

\* A test case without groups goes to the trait's group itself.
InsertDirect ==
    /\ pc = "insert"
    /\ cur.k <= Len(testMap[uTraits[cur.i]])
    /\ LET tc == testMap[uTraits[cur.i]][cur.k]
       IN  /\ Len(tc.groups) = 0
           /\ heap' = [heap EXCEPT ![resultSet[cur.i]].Tests = Append(@, OutCase(tc))]
    /\ cur' = [cur EXCEPT !.k = @ + 1]
    /\ UNCHANGED <<asm, testMap, uTraits, resultSet, pc>>
    /\ UNCHANGED <<splitVars, testVars, sentVars, callVars, assertVars, mainVars, traitVars>>

\* A test case with groups goes to the last group of its path.
InsertNested ==
    /\ pc = "insert"
    /\ cur.k <= Len(testMap[uTraits[cur.i]])
    /\ LET tc == testMap[uTraits[cur.i]][cur.k]
       IN  /\ Len(tc.groups) # 0
           /\ heap' = WalkGroups(heap, resultSet[cur.i], tc, 1)
    /\ cur' = [cur EXCEPT !.k = @ + 1]
    /\ UNCHANGED <<asm, testMap, uTraits, resultSet, pc>>
    /\ UNCHANGED <<splitVars, testVars, sentVars, callVars, assertVars, mainVars, traitVars>>

\* The test cases of the trait are placed: on to the next trait.
CloseBucket ==
    /\ pc = "insert"
    /\ cur.k > Len(testMap[uTraits[cur.i]])
    /\ cur' = [i |-> cur.i + 1, k |-> 0]
    /\ pc' = "bucket"
    /\ UNCHANGED <<asm, testMap, uTraits, heap, resultSet>>
    /\ UNCHANGED <<splitVars, testVars, sentVars, callVars, assertVars, mainVars, traitVars>>

\* groupTests returns resultSet.
GroupReturn ==
    /\ pc = "bucket"
    /\ cur.i > Len(uTraits)
    /\ pc' = "done"
    /\ UNCHANGED <<asm, testMap, uTraits, heap, resultSet, cur>>
    /\ UNCHANGED <<splitVars, testVars, sentVars, callVars, assertVars, mainVars, traitVars>>

LoadNext ==
    \/ GroupNoTests
    \/ UniqueTraitsEnter
    \/ IndexTest
    \/ UniqueTraitsReturn
    \/ OpenBucket
    \/ InsertDirect
    \/ InsertNested
    \/ CloseBucket
    \/ GroupReturn

----------------------------------------------------------------------------
(* Package xunit: Load.  Two calls run side by side, each on its own       *)
(* reader.  A slice is [isNil, elems], so that a nil slice and an empty    *)
(* one differ.  Load's unmarshal, the types it decodes into and paths.Name *)
(* are outside the sources at hand and follow the documented contract.     *)

MaxAssemblies == 2

Calls == {1, 2}

NilSlice == [isNil |-> TRUE, elems |-> <<>>]

\* A slice that is nil as long as nothing was appended (var s []T).
MakeSliceLazy(elems) == [isNil |-> elems = <<>>, elems |-> elems]

\* make([]T, 0, n) followed by appends of elems
MakeSlice(elems) == [isNil |-> FALSE, elems |-> elems]

\* TestRun{}
ZeroTestRun ==
    [Computer |-> "", User |-> "", StartTimeRTF |-> "", EndTimeRTF |-> "",
     Timestamp |-> "", Assemblies |-> NilSlice]

\* paths.Name: what follows the last '/' or '\' of the path.
PathName(full) ==
    Slice(full, Max({LastIndex(full, "/"), LastIndex(full, "\\")}) + 1, Len(full))

TraitNoValue == [Name |-> <<"C">>, Value |-> <<>>]

TraitNoName == [Name |-> <<>>, Value |-> <<"U">>]

NestedT == NewTest(<<"N", ".", "C", "+", "M", ".", "R">>, <<"N", ".", "C", "+", "M">>, <<>>)

TwoTraitsT == NewTest(<<"A", " ", "t">>, <<"N">>, <<TraitTS, TraitCU>>)

NoValueT == NewTest(<<"N", ".", "T", "m">>, <<"N">>, <<TraitNoValue>>)

NoNameT == NewTest(<<"N", ".", "T", "m">>, <<"N">>, <<TraitNoName>>)

\* An assembly element of the document.
NewAssembly(fullName, total, collections) ==
    [FullName |-> fullName, ErrorCount |-> 1, PassedCount |-> 3, FailedCount |-> 2,
     NotRunCount |-> 4, Total |-> total, RunDate |-> "07/10/2023",
     RunTime |-> "20:53:19", Time |-> 0, TimeRTF |-> "2000-12-01",
     Collections |-> collections]

AssemblyPool ==
    { NewAssembly(<<"~", "/", "s", "/", "b">>, 2, << <<>>, <<NestedT, TwoTraitsT>> >>),
      NewAssembly(<<"c">>, 2, << <<NoValueT>>, <<NoNameT>> >>) }

NewDocument(computer, assemblies) ==
    [Computer |-> computer, User |-> "Kevin", StartRTF |-> "2000-12-01",
     FinishRTF |-> "2001-12-01", Timestamp |-> "2001-12-02", Assemblies |-> assemblies]

\* TestLoad's "simple XML document", whose assembly has no collection,
\* with a second assembly that has one collection without tests.
SimpleDocument ==
    NewDocument("WIN11", <<NewAssembly(<<"C", ":", "\\", "P", "\\", "A">>, 5, <<>>),
                           NewAssembly(<<"a">>, 0, << <<>> >>)>>)

\* What a reader can hold: nothing, text that is no XML, or a document.
Streams ==
    {[kind |-> "empty"], [kind |-> "text"], [kind |-> "xml", doc |-> SimpleDocument]}
    \cup {[kind |-> "xml", doc |-> NewDocument("", as)] :
              as \in SeqsUpTo(AssemblyPool, MaxAssemblies)}

\* unmarshal accepting every stream: what is no document decodes to an
\* empty one.
unmarshalLenient(stream) ==
    IF stream.kind = "xml"
    THEN [result |-> stream.doc, err |-> "nil"]
    ELSE [result |-> NewDocument("", <<>>), err |-> "nil"]

\* unmarshal(rdr): the decoded document, or an error for an empty stream
\* and for text that is no XML document.
unmarshal(stream) ==
    IF stream.kind = "xml"
    THEN [result |-> stream.doc, err |-> "nil"]
    ELSE [result |-> NewDocument("", <<>>), err |-> "DecodeError"]

\* m[key] of Go: the zero value when m has no such key.
MapGet(m, key) == IF key \in DOMAIN m THEN m[key] ELSE <<>>

\* The orders in which ranging over a map with the keys S can yield them.
Perms(S) ==
    {f \in [1..Cardinality(S) -> S] : \A i, j \in 1..Cardinality(S) : i # j => f[i] # f[j]}

\* SortKeys leaving the keys in the order the map yielded them.
SortKeysNone(keys) == keys

\* maps.SortedKeys, once it has read the keys off the map in the order keys.
SortKeys(keys) == SortSet(Range(keys))

\* The loops of uniqueTraits over the tests ts, from the i-th test on.
RECURSIVE IndexFrom(_, _, _)
IndexFrom(m, ts, i) ==
    IF i > Len(ts) THEN m ELSE IndexFrom(IndexOne(m, ts[i], i), ts, i + 1)

\* The inner loop of groupTests over the test cases tcs of the group root.
RECURSIVE PlaceFrom(_, _, _, _)
PlaceFrom(h, root, tcs, k) ==
    IF k > Len(tcs) THEN h
    ELSE LET tc == tcs[k]
             h1 == IF Len(tc.groups) = 0
                   THEN [h EXCEPT ![root].Tests = Append(@, OutCase(tc))]
                   ELSE WalkGroups(h, root, tc, 1)
         IN  PlaceFrom(h1, root, tcs, k + 1)

\* The outer loop of groupTests over the traits, from the i-th on; st is
\* [heap, resultSet].
RECURSIVE BucketsFrom(_, _, _, _)
BucketsFrom(st, m, traits, i) ==
    IF i > Len(traits) THEN st
    ELSE LET root == Len(st.heap) + 1
             h0 == Append(st.heap, NewGroup(traits[i]))
         IN  BucketsFrom([heap |-> PlaceFrom(h0, root, MapGet(m, traits[i]), 1),
                          resultSet |-> Append(st.resultSet, root)],
                         m, traits, i + 1)

\* The group g of the heap h with the groups below it, as a value.
RECURSIVE GroupValue(_, _)
GroupValue(h, g) ==
    [Name |-> h[g].Name, Tests |-> h[g].Tests,
     Groups |-> [i \in DOMAIN h[g].Groups |-> GroupValue(h, h[g].Groups[i])]]

\* What groupTests returns from the testMap m and the sorted traits.
GroupsOf(m, traits) ==
    LET st == BucketsFrom([heap |-> <<>>, resultSet |-> <<>>], m, traits, 1)
    IN  MakeSlice([i \in DOMAIN st.resultSet |-> GroupValue(st.heap, st.resultSet[i])])

\* The Assembly that readResult appends for the element a.
OutAssembly(a, testGroups) ==
    [Name |-> PathName(a.FullName), ErrorCount |-> a.ErrorCount,
     PassedCount |-> a.PassedCount, FailedCount |-> a.FailedCount,
     NotRunCount |-> a.NotRunCount, TotalCount |-> a.Total, RunDate |-> a.RunDate,
     RunTime |-> a.RunTime, TimeRTF |-> a.TimeRTF, Time |-> a.Time,
     TestGroups |-> testGroups]

\* One testMap for all calls, as a package-level variable would be.
MapOwnerShared(c) == 1

\* The call whose loop variable assembly holds the testMap that the
\* groupTests of call c writes and reads: its own.
MapOwner(c) == c

NoCall ==
    [r |-> NewDocument("", <<>>), idx |-> 0, testMap |-> EmptyMap, uniqueTraits |-> <<>>]

NoReturn == [run |-> ZeroTestRun, err |-> "none"]

CallIdle ==
    /\ rdr = [c \in Calls |-> [kind |-> "empty"]]
    /\ result = [c \in Calls |-> NoCall]
    /\ testRun = [c \in Calls |-> ZeroTestRun]
    /\ ret = [c \in Calls |-> NoReturn]
    /\ lpc = [c \in Calls |-> "off"]

CallInit ==
    /\ rdr \in [Calls -> Streams]
    /\ result = [c \in Calls |-> NoCall]
    /\ testRun = [c \in Calls |-> ZeroTestRun]
    /\ ret = [c \in Calls |-> NoReturn]
    /\ lpc = [c \in Calls |-> "new"]

\* unmarshal fails: Load returns TestRun{} and the error.
LoadFail ==
    \E c \in Calls :
        /\ lpc[c] = "new"
        /\ unmarshal(rdr[c]).err # "nil"
        /\ ret' = [ret EXCEPT ![c] = [run |-> ZeroTestRun, err |-> unmarshal(rdr[c]).err]]
        /\ lpc' = [lpc EXCEPT ![c] = "done"]
        /\ UNCHANGED <<rdr, result, testRun>>
        /\ UNCHANGED <<splitVars, testVars, loadVars, sentVars, assertVars, mainVars, traitVars>>

\* unmarshal succeeds: Load goes on to readResult.
LoadDecoded ==
    \E c \in Calls :
        /\ lpc[c] = "new"
        /\ unmarshal(rdr[c]).err = "nil"
        /\ result' = [result EXCEPT ![c].r = unmarshal(rdr[c]).result]
        /\ lpc' = [lpc EXCEPT ![c] = "decoded"]
        /\ UNCHANGED <<rdr, testRun, ret>>
        /\ UNCHANGED <<splitVars, testVars, loadVars, sentVars, assertVars, mainVars, traitVars>>

\* uniqueTraits keeping what the testMap held instead of making a new map.
NewTestMapKeep(old) == old

\* assembly.testMap = make(map[string][]testCase): whatever the field held
\* before is dropped.
NewTestMap(old) == EmptyMap

\* readResult makes its TestRun.
ReadResultEnter ==
    \E c \in Calls :
        /\ lpc[c] = "decoded"
        /\ testRun' = [testRun EXCEPT ![c] =
                          [Computer |-> result[c].r.Computer,
                           User |-> result[c].r.User,
                           StartTimeRTF |-> result[c].r.StartRTF,
                           EndTimeRTF |-> result[c].r.FinishRTF,
                           Timestamp |-> result[c].r.Timestamp,
                           Assemblies |-> MakeSlice(<<>>)]]
        /\ result' = [result EXCEPT ![c].idx = 1]
        /\ lpc' = [lpc EXCEPT ![c] = "read"]
        /\ UNCHANGED <<rdr, ret>>
        /\ UNCHANGED <<splitVars, testVars, loadVars, sentVars, assertVars, mainVars, traitVars>>

\* readResult appends an assembly without tests: groupTests returns at once.
AssemblyNoTests ==
    \E c \in Calls :
        /\ lpc[c] = "read"
        /\ result[c].idx <= Len(result[c].r.Assemblies)
        /\ LET assembly == result[c].r.Assemblies[result[c].idx]
           IN  /\ ~hasTests(assembly.Collections)
               /\ testRun' = [testRun EXCEPT ![c].Assemblies =
                                 MakeSlice(Append(@.elems, OutAssembly(assembly, MakeSlice(<<>>))))]
        /\ result' = [result EXCEPT ![c].idx = @ + 1]
        /\ UNCHANGED <<rdr, ret, lpc>>
        /\ UNCHANGED <<splitVars, testVars, loadVars, sentVars, assertVars, mainVars, traitVars>>

\* groupTests calls uniqueTraits: the testMap is made, and its keys come
\* back sorted, in whatever order the map yielded them.
AssemblyUniqueTraits ==
    \E c \in Calls :
        /\ lpc[c] = "read"
        /\ result[c].idx <= Len(result[c].r.Assemblies)
        /\ LET assembly == result[c].r.Assemblies[result[c].idx]
               m == IndexFrom(NewTestMap(result[MapOwner(c)].testMap),
                              Flatten(assembly.Collections), 1)
           IN  /\ hasTests(assembly.Collections)
               /\ \E keys \in Perms(DOMAIN m) :
                      result' = [[result EXCEPT ![MapOwner(c)].testMap = m]
                                    EXCEPT ![c].uniqueTraits = SortKeys(keys)]
        /\ lpc' = [lpc EXCEPT ![c] = "keys"]
        /\ UNCHANGED <<rdr, testRun, ret>>
        /\ UNCHANGED <<splitVars, testVars, loadVars, sentVars, assertVars, mainVars, traitVars>>

\* groupTests builds the groups; readResult appends the assembly.
AssemblyGroups ==
    \E c \in Calls :
        /\ lpc[c] = "keys"
        /\ LET assembly == result[c].r.Assemblies[result[c].idx]
               testGroups == GroupsOf(result[MapOwner(c)].testMap, result[c].uniqueTraits)
           IN  testRun' = [testRun EXCEPT ![c].Assemblies =
                              MakeSlice(Append(@.elems, OutAssembly(assembly, testGroups)))]
        /\ result' = [result EXCEPT ![c].idx = @ + 1]
        /\ lpc' = [lpc EXCEPT ![c] = "read"]
        /\ UNCHANGED <<rdr, ret>>
        /\ UNCHANGED <<splitVars, testVars, loadVars, sentVars, assertVars, mainVars, traitVars>>

\* readResult returns its TestRun, and Load returns it with a nil error.
ReadResultReturn ==
    \E c \in Calls :
        /\ lpc[c] = "read"
        /\ result[c].idx > Len(result[c].r.Assemblies)
        /\ ret' = [ret EXCEPT ![c] = [run |-> testRun[c], err |-> "nil"]]
        /\ lpc' = [lpc EXCEPT ![c] = "done"]
        /\ UNCHANGED <<rdr, result, testRun>>
        /\ UNCHANGED <<splitVars, testVars, loadVars, sentVars, assertVars, mainVars, traitVars>>

CallNext ==
    \/ LoadFail
    \/ LoadDecoded
    \/ ReadResultEnter
    \/ AssemblyNoTests
    \/ AssemblyUniqueTraits
    \/ AssemblyGroups
    \/ ReadResultReturn

----------------------------------------------------------------------------
(* Package assert: Equal and failT on a testing.TB.                        *)
(* An argument of msg is [type, val]; tb is [failed, format, args].        *)

MaxVal == 2

Values == 0..MaxVal

Names == {"", "name"}

Messages ==
    { <<>>,
      <<[type |-> "string", val |-> "UT Name: %s"]>>,
      <<[type |-> "string", val |-> "UT Name: %s"], [type |-> "string", val |-> "tc"]>>,
      <<[type |-> "int", val |-> "1"]>> }

FreshTB == [failed |-> FALSE, format |-> "", args |-> <<>>]

\* tb.Fatalf(format, args...)
Fatalf(format, fargs) == [failed |-> TRUE, format |-> format, args |-> fargs]

AssertIdle ==
    /\ args = [got |-> 0, want |-> 0, name |-> "", msg |-> <<>>]
    /\ tb = FreshTB
    /\ apc = "off"

AssertInit ==
    /\ args \in [got : Values, want : Values, name : Names, msg : Messages]
    /\ tb = FreshTB
    /\ apc = "new"

\* got == want: Equal returns.
EqualSame ==
    /\ apc = "new"
    /\ args.got = args.want
    /\ apc' = "done"
    /\ UNCHANGED <<args, tb>>
    /\ UNCHANGED <<splitVars, testVars, loadVars, sentVars, callVars, mainVars, traitVars>>

\* failT with a name: tb.Fatalf(msgTemplate, name, got, want)
FailNamed ==
    /\ apc = "new"
    /\ args.got # args.want
    /\ args.name # ""
    /\ tb' = Fatalf("%s = %v, want %v", <<args.name, args.got, args.want>>)
    /\ apc' = "done"
    /\ UNCHANGED args
    /\ UNCHANGED <<splitVars, testVars, loadVars, sentVars, callVars, mainVars, traitVars>>

\* failT without a name: tb.Fatalf(msg[0].(string), msg[1:]...)
FailCustom ==
    /\ apc = "new"
    /\ args.got # args.want
    /\ args.name = ""
    /\ Len(args.msg) > 0
    /\ args.msg[1].type = "string"
    /\ tb' = Fatalf(args.msg[1].val, Tail(args.msg))
    /\ apc' = "done"
    /\ UNCHANGED args
    /\ UNCHANGED <<splitVars, testVars, loadVars, sentVars, callVars, mainVars, traitVars>>

\* failT without a name and without msg: msg[0] is out of range.
FailIndexPanic ==
    /\ apc = "new"
    /\ args.got # args.want
    /\ args.name = ""
    /\ Len(args.msg) = 0
    /\ apc' = "panic"
    /\ UNCHANGED <<args, tb>>
    /\ UNCHANGED <<splitVars, testVars, loadVars, sentVars, callVars, mainVars, traitVars>>

\* failT without a name, msg[0] being no string: the type assertion panics.
FailTypePanic ==
    /\ apc = "new"
    /\ args.got # args.want
    /\ args.name = ""
    /\ Len(args.msg) > 0
    /\ args.msg[1].type # "string"
    /\ apc' = "panic"
    /\ UNCHANGED <<args, tb>>
    /\ UNCHANGED <<splitVars, testVars, loadVars, sentVars, callVars, mainVars, traitVars>>

AssertNext == EqualSame \/ FailNamed \/ FailCustom \/ FailIndexPanic \/ FailTypePanic

----------------------------------------------------------------------------
(* main: open data.xml, Load it, print the TestRun.                        *)

\* What groupTests returns for the assembly element a, run on its own.
GroupsAlone(a) ==
    IF ~hasTests(a.Collections) THEN MakeSlice(<<>>)
    ELSE LET m == IndexFrom(EmptyMap, Flatten(a.Collections), 1)
         IN  GroupsOf(m, SortedKeys(m))

\* What Load returns for the stream, run on its own.
LoadAlone(stream) ==
    LET u == unmarshal(stream)
        r == u.result
    IN  IF u.err # "nil" THEN [run |-> ZeroTestRun, err |-> u.err]
        ELSE [run |-> [Computer |-> r.Computer, User |-> r.User,
                       StartTimeRTF |-> r.StartRTF, EndTimeRTF |-> r.FinishRTF,
                       Timestamp |-> r.Timestamp,
                       Assemblies |-> MakeSlice([i \in DOMAIN r.Assemblies |->
                           OutAssembly(r.Assemblies[i], GroupsAlone(r.Assemblies[i]))])],
              err |-> "nil"]

\* What os.Open("data.xml") can find: no such file, or a file.
LogFiles == {[kind |-> "nofile"]} \cup Streams

\* The reader main hands to Load: the file, or the nil *os.File that
\* os.Open returned with its error, every read of which fails.
Reader(file) == IF file.kind = "nofile" THEN [kind |-> "invalid"] ELSE file

NoMain ==
    [openErr |-> "nil", loadCalled |-> FALSE, resultSet |-> ZeroTestRun,
     err |-> "nil", idx |-> 0]

MainIdle ==
    /\ logFile = [kind |-> "nofile"] /\ mainRes = NoMain
    /\ reads = {} /\ stdout = <<>> /\ mpc = "off"

MainInit ==
    /\ logFile \in LogFiles /\ mainRes = NoMain
    /\ reads = {} /\ stdout = <<>> /\ mpc = "start"

\* rdr, err := os.Open(logFile) fails; if err != nil { fmt.Println(err) }
MainOpenFail ==
    /\ mpc = "start"
    /\ logFile.kind = "nofile"
    /\ mainRes' = [mainRes EXCEPT !.openErr = "ENOENT"]
    /\ stdout' = Append(stdout, "open data.xml: no such file or directory")
    /\ mpc' = "defer"
    /\ UNCHANGED <<logFile, reads>>
    /\ UNCHANGED <<splitVars, testVars, loadVars, sentVars, callVars, assertVars, traitVars>>

\* rdr, err := os.Open(logFile) succeeds
MainOpenOk ==
    /\ mpc = "start"
    /\ logFile.kind # "nofile"
    /\ mpc' = "defer"
    /\ UNCHANGED <<logFile, mainRes, reads, stdout>>
    /\ UNCHANGED <<splitVars, testVars, loadVars, sentVars, callVars, assertVars, traitVars>>

\* defer rdr.Close(); the second if err != nil { fmt.Println(err) }
MainDeferErr ==
    /\ mpc = "defer"
    /\ mainRes.openErr # "nil"
    /\ stdout' = Append(stdout, "open data.xml: no such file or directory")
    /\ mpc' = "load"
    /\ UNCHANGED <<logFile, mainRes, reads>>
    /\ UNCHANGED <<splitVars, testVars, loadVars, sentVars, callVars, assertVars, traitVars>>

MainDeferOk ==
    /\ mpc = "defer"
    /\ mainRes.openErr = "nil"
    /\ mpc' = "load"
    /\ UNCHANGED <<logFile, mainRes, reads, stdout>>
    /\ UNCHANGED <<splitVars, testVars, loadVars, sentVars, callVars, assertVars, traitVars>>

\* resultSet, err := xunit.Load(rdr) returns an error;
\* if err != nil { fmt.Println("Error encountered ...") }
MainLoadErr ==
    /\ mpc = "load"
    /\ LET r == LoadAlone(Reader(logFile))
       IN  /\ r.err # "nil"
           /\ mainRes' = [mainRes EXCEPT !.loadCalled = TRUE, !.resultSet = r.run,
                                         !.err = r.err]
    /\ stdout' = Append(stdout, "Error encountered ...")
    /\ mpc' = "count"
    /\ UNCHANGED <<logFile, reads>>
    /\ UNCHANGED <<splitVars, testVars, loadVars, sentVars, callVars, assertVars, traitVars>>

\* resultSet, err := xunit.Load(rdr) returns a TestRun
MainLoadOk ==
    /\ mpc = "load"
    /\ LET r == LoadAlone(Reader(logFile))
       IN  /\ r.err = "nil"
           /\ mainRes' = [mainRes EXCEPT !.loadCalled = TRUE, !.resultSet = r.run,
                                         !.err = r.err]
    /\ mpc' = "count"
    /\ UNCHANGED <<logFile, reads, stdout>>
    /\ UNCHANGED <<splitVars, testVars, loadVars, sentVars, callVars, assertVars, traitVars>>

\* The "Input source" and "Amount of assemblies" lines, the latter from
\* len(resultSet.Assemblies).
MainPrintCount ==
    /\ mpc = "count"
    /\ reads' = reads \cup {"Assemblies"}
    /\ stdout' = stdout \o <<"Input source", "Amount of assemblies">>
    /\ mpc' = "computer"
    /\ UNCHANGED <<logFile, mainRes>>
    /\ UNCHANGED <<splitVars, testVars, loadVars, sentVars, callVars, assertVars, traitVars>>

\* if resultSet.Computer != "" { Printf("Computer: ...") }
MainPrintComputer ==
    /\ mpc = "computer"
    /\ reads' = reads \cup {"Computer"}
    /\ stdout' = IF mainRes.resultSet.Computer # ""
                 THEN Append(stdout, "Computer") ELSE stdout
    /\ mpc' = "user"
    /\ UNCHANGED <<logFile, mainRes>>
    /\ UNCHANGED <<splitVars, testVars, loadVars, sentVars, callVars, assertVars, traitVars>>

\* if resultSet.User != "" { Printf("User: ...") }
MainPrintUser ==
    /\ mpc = "user"
    /\ reads' = reads \cup {"User"}
    /\ stdout' = IF mainRes.resultSet.User # ""
                 THEN Append(stdout, "User") ELSE stdout
    /\ mpc' = "startTime"
    /\ UNCHANGED <<logFile, mainRes>>
    /\ UNCHANGED <<splitVars, testVars, loadVars, sentVars, callVars, assertVars, traitVars>>

\* if resultSet.StartTimeRTF != "" { Printf("Start time: ...") }
MainPrintStartTime ==
    /\ mpc = "startTime"
    /\ reads' = reads \cup {"StartTimeRTF"}
    /\ stdout' = IF mainRes.resultSet.StartTimeRTF # ""
                 THEN Append(stdout, "Start time") ELSE stdout
    /\ mpc' = "endTime"
    /\ UNCHANGED <<logFile, mainRes>>
    /\ UNCHANGED <<splitVars, testVars, loadVars, sentVars, callVars, assertVars, traitVars>>

\* if resultSet.EndTimeRTF != "" { ... } else if resultSet.Timestamp != "" { ... }
MainPrintEndTime ==
    /\ mpc = "endTime"
    /\ reads' = reads \cup (IF mainRes.resultSet.EndTimeRTF # ""
                            THEN {"EndTimeRTF"} ELSE {"EndTimeRTF", "Timestamp"})
    /\ stdout' = IF mainRes.resultSet.EndTimeRTF # "" \/ mainRes.resultSet.Timestamp # ""
                 THEN Append(stdout, "End time") ELSE stdout
    /\ mainRes' = [mainRes EXCEPT !.idx = 1]
    /\ mpc' = "assemblies"
    /\ UNCHANGED <<logFile>>
    /\ UNCHANGED <<splitVars, testVars, loadVars, sentVars, callVars, assertVars, traitVars>>

\* One turn of "for _, assembly := range resultSet.Assemblies": the lines of
\* the assembly and of its groups.
MainPrintAssembly ==
    /\ mpc = "assemblies"
    /\ mainRes.idx <= Len(mainRes.resultSet.Assemblies.elems)
    /\ reads' = reads \cup {"Assemblies"}
    /\ stdout' = Append(stdout, "Assembly")
    /\ mainRes' = [mainRes EXCEPT !.idx = @ + 1]
    /\ UNCHANGED <<logFile, mpc>>
    /\ UNCHANGED <<splitVars, testVars, loadVars, sentVars, callVars, assertVars, traitVars>>

\* The range is over; fmt.Println(""), and main returns.
MainReturn ==
    /\ mpc = "assemblies"
    /\ mainRes.idx > Len(mainRes.resultSet.Assemblies.elems)
    /\ stdout' = Append(stdout, "")
    /\ mpc' = "done"
    /\ UNCHANGED <<logFile, mainRes, reads>>
    /\ UNCHANGED <<splitVars, testVars, loadVars, sentVars, callVars, assertVars, traitVars>>

MainNext ==
    \/ MainOpenFail \/ MainOpenOk \/ MainDeferErr \/ MainDeferOk
    \/ MainLoadErr \/ MainLoadOk \/ MainPrintCount \/ MainPrintComputer
    \/ MainPrintUser \/ MainPrintStartTime \/ MainPrintEndTime
    \/ MainPrintAssembly \/ MainReturn

----------------------------------------------------------------------------
(* uniqueTraits on an assembly of two tests that have one trait each.      *)

TraitParts ==
    {<<>>, <<"a">>, <<"b">>, <<" ", "-", " ">>, <<"a", " ", "-", " ", "b">>}

TraitPool == [Name : TraitParts, Value : TraitParts]

TraitIdle ==
    /\ pair = <<TraitCU, TraitCU>> /\ traitMap = EmptyMap /\ kpc = "off"

TraitInit ==
    /\ pair \in TraitPool \X TraitPool /\ traitMap = EmptyMap /\ kpc = "new"

\* uniqueTraits' loops over one collection with two tests, the first with
\* the trait pair[1], the second with the trait pair[2].
IndexPair ==
    /\ kpc = "new"
    /\ traitMap' = IndexOne(IndexOne(EmptyMap, NewTest(<<"A", " ", "t">>, <<"N">>, <<pair[1]>>), 1),
                            NewTest(<<"B", " ", "t">>, <<"N">>, <<pair[2]>>), 2)
    /\ kpc' = "done"
    /\ UNCHANGED pair
    /\ UNCHANGED <<splitVars, testVars, loadVars, sentVars, callVars, assertVars, mainVars>>

TraitNext == IndexPair

----------------------------------------------------------------------------
(* The specifications.                                                     *)

Init == SplitIdle /\ TestIdle /\ LoadInit /\ SentIdle /\ CallIdle /\ AssertIdle /\ MainIdle /\ TraitIdle

Next == LoadNext

Spec == Init /\ [][Next]_vars

InitSplit == SplitInit /\ TestIdle /\ LoadIdle /\ SentIdle /\ CallIdle /\ AssertIdle /\ MainIdle /\ TraitIdle

NextSplit == SplitNext

SpecSplit == InitSplit /\ [][NextSplit]_vars

\* Split runs in one goroutine that is never stopped: its loop goes on as
\* long as it has a step to take.
SpecSplitRun == InitSplit /\ [][NextSplit]_vars /\ WF_vars(NextSplit)

InitTest == SplitIdle /\ TestInit /\ LoadIdle /\ SentIdle /\ CallIdle /\ AssertIdle /\ MainIdle /\ TraitIdle

InitSentence == SplitIdle /\ TestIdle /\ LoadIdle /\ SentInit /\ CallIdle /\ AssertIdle /\ MainIdle /\ TraitIdle

NextSentence == SentNext

SpecSentence == InitSentence /\ [][NextSentence]_vars

InitLoad == SplitIdle /\ TestIdle /\ LoadIdle /\ SentIdle /\ CallInit /\ AssertIdle /\ MainIdle /\ TraitIdle

NextLoad == CallNext

SpecLoad == InitLoad /\ [][NextLoad]_vars

InitAssert == SplitIdle /\ TestIdle /\ LoadIdle /\ SentIdle /\ CallIdle /\ AssertInit /\ MainIdle /\ TraitIdle

NextAssert == AssertNext

SpecAssert == InitAssert /\ [][NextAssert]_vars

InitMain == SplitIdle /\ TestIdle /\ LoadIdle /\ SentIdle /\ CallIdle /\ AssertIdle /\ MainInit /\ TraitIdle

NextMain == MainNext

SpecMain == InitMain /\ [][NextMain]_vars

InitTrait == SplitIdle /\ TestIdle /\ LoadIdle /\ SentIdle /\ CallIdle /\ AssertIdle /\ MainIdle /\ TraitInit

NextTrait == TraitNext

SpecTrait == InitTrait /\ [][NextTrait]_vars

NextTest == TestNext

SpecTest == InitTest /\ [][NextTest]_vars

----------------------------------------------------------------------------
(* What the claims speak of, read off the report that groupTests builds.   *)

Tests == Flatten(asm)

Roots == Range(resultSet)

Children(g) == Range(heap[g].Groups)

\* The groups of the subtree of g, g included.
RECURSIVE Subtree(_)
Subtree(g) == {g} \cup UNION {Subtree(c) : c \in Children(g)}

\* The places (group, index) at which the test case of test id stands below g.
Places(g, id) ==
    UNION { { <<n, i>> : i \in {j \in DOMAIN heap[n].Tests : heap[n].Tests[j].id = id} } :
            n \in Subtree(g) }

Occurrences(g, id) == Cardinality(Places(g, id))

\* The top-level group named key, 0 when there is none.
RootNamed(key) ==
    IF \E r \in Roots : heap[r].Name = key
    THEN CHOOSE r \in Roots : heap[r].Name = key
    ELSE 0

\* "TraitName - TraitValue"
RenderedKey(tr) == tr.Name \o <<" ", "-", " ">> \o tr.Value

KeysOf(t) ==
    IF Len(t.Traits) = 0 THEN {<<>>}
    ELSE {RenderedKey(t.Traits[i]) : i \in DOMAIN t.Traits}

\* The groups from the top-level group down to n, the top-level one left out.
RECURSIVE NodePath(_)
NodePath(n) ==
    IF n \in Roots THEN <<>>
    ELSE Append(NodePath(CHOOSE g \in DOMAIN heap : n \in Children(g)), n)

PathNames(n) == [d \in DOMAIN NodePath(n) |-> heap[NodePath(n)[d]].Name]

CommonPrefixLen(p, q) ==
    Max({d \in 0..Min({Len(p), Len(q)}) : SubSeq(p, 1, d) = SubSeq(q, 1, d)})

----------------------------------------------------------------------------
\* C1: in the finished report a test appears exactly once in the top-level
\* group of each of its traits (in the group "" when it has no trait) and in
\* no other top-level group.
C1_OncePerTraitGroup ==
    pc = "done" =>
        \A id \in DOMAIN Tests :
            /\ \A key \in KeysOf(Tests[id]) :
                  /\ RootNamed(key) # 0
                  /\ Occurrences(RootNamed(key), id) = 1
            /\ \A r \in Roots :
                  heap[r].Name \notin KeysOf(Tests[id]) => Occurrences(r, id) = 0

\* C2: at every moment of the insertion no group has two child groups of
\* the same name, and two test cases of one top-level group whose paths
\* share a prefix stand below the same groups along that prefix.
C2_ChildNamesUnique ==
    /\ \A g \in DOMAIN heap :
          \A i, j \in DOMAIN heap[g].Groups :
              i # j => heap[heap[g].Groups[i]].Name # heap[heap[g].Groups[j]].Name
    /\ \A r \in Roots :
          \A n1, n2 \in Subtree(r) \ {r} :
              \A i1 \in DOMAIN heap[n1].Tests, i2 \in DOMAIN heap[n2].Tests :
                  LET p1 == groups(Tests[heap[n1].Tests[i1].id])
                      p2 == groups(Tests[heap[n2].Tests[i2].id])
                  IN  \A d \in 1..CommonPrefixLen(p1, p2) :
                          /\ d <= Len(NodePath(n1))
                          /\ d <= Len(NodePath(n2))
                          /\ NodePath(n1)[d] = NodePath(n2)[d]

\* C2's case: the report is finished and a group below the top level has
\* two child groups, so two paths that share a prefix were inserted.
C2_Witness ==
    /\ pc = "done"
    /\ \E g \in DOMAIN heap : g \notin Roots /\ Len(heap[g].Groups) >= 2

\* C3: a test case stands in a sub-group exactly if its test has no display
\* name and a '+' in its name; it then stands in the last group of its path
\* and nowhere else, and every other test case stands in the test list of
\* the top-level group itself.
C3_NestedIffPlusAndNoDisplayName ==
    /\ \A r \in Roots :
          \A n \in Subtree(r) :
              \A i \in DOMAIN heap[n].Tests :
                  LET t == Tests[heap[n].Tests[i].id]
                  IN  IF ~hasDisplayName(t) /\ "+" \in Range(t.Name)
                      THEN n # r /\ PathNames(n) = groups(t)
                      ELSE n = r
    /\ pc = "done" =>
          \A key \in DOMAIN testMap :
              \A k \in DOMAIN testMap[key] :
                  Occurrences(RootNamed(key), testMap[key][k].id) >= 1

\* C3's case: the finished report holds a test case in a sub-group and, in
\* a top-level group's own list, a test with a display name that has a '+'.
C3_Witness ==
    /\ pc = "done"
    /\ \E n \in DOMAIN heap : n \notin Roots /\ Len(heap[n].Tests) > 0
    /\ \E r \in Roots :
          \E i \in DOMAIN heap[r].Tests :
              "+" \in Range(Tests[heap[r].Tests[i].id].Name)

\* C6: the top-level groups of an assembly with tests are the rendered keys
\* of its tests' traits, and "" if a test has no trait, each once, in
\* ascending byte order ("" first).
C6_TopLevelGroupsAreSortedKeys ==
    (pc = "done" /\ hasTests(asm)) =>
        LET names == [b \in DOMAIN resultSet |-> heap[resultSet[b]].Name]
        IN  /\ Range(names) = UNION {KeysOf(Tests[id]) : id \in DOMAIN Tests}
            /\ \A i, j \in DOMAIN names : i < j => LexLess(names[i], names[j])
            /\ <<>> \in Range(names) => names[1] = <<>>

\* C6's case: a finished report with the group "" and two trait groups.
C6_Witness ==
    /\ pc = "done"
    /\ Len(resultSet) >= 3
    /\ heap[resultSet[1]].Name = <<>>
    /\ \E id \in DOMAIN Tests : Len(Tests[id].Traits) >= 2

----------------------------------------------------------------------------
(* What the claims speak of, for one test and for one Split.               *)

\* A group label or test name made from an identifier.
Humanize(p) == Transform(Split(p), {})

\* The part of s after its last c: the suffix without c that starts s or
\* follows a c.
AfterLast(s, c) ==
    CHOOSE x \in Substrings(s) :
        /\ c \notin Range(x)
        /\ \/ x = s
           \/ Len(x) < Len(s) /\ Slice(s, Len(s) - Len(x) - 1, Len(s)) = <<c>> \o x

\* The part of s before its last c: s when c is not in s.
BeforeLast(s, c) ==
    IF c \notin Range(s) THEN s
    ELSE Slice(s, 0, Len(s) - Len(AfterLast(s, c)) - 1)

\* The part of s before its first c: s when c is not in s.
BeforeFirst(s, c) ==
    CHOOSE x \in Substrings(s) :
        /\ c \notin Range(x)
        /\ \/ x = s
           \/ Len(x) < Len(s) /\ Slice(s, 0, Len(x) + 1) = x \o <<c>>

\* The segments of s between its '+' characters.
Segments(s) == StringsSplit(s, "+")

ClaimNested(t) == ~hasDisplayName(t) /\ "+" \in Range(t.Name)

\* C4: the path of a nested test with k segments has k labels: what follows
\* the last '.' of the first segment, the inner segments, and the part of
\* the last segment that precedes a '.' of it, each humanized; the test of
\* TestLoad gets "Test class", "Method", "Scenario", "Sub scenario" and the
\* name "Result".
C4_PathHasOneLabelPerSegment ==
    (tpc = "done" /\ ClaimNested(tst)) =>
        LET segs == Segments(tst.Name)
            k == Len(segs)
            last == segs[k]
        IN  /\ k >= 2
            /\ Len(tres.groups) = k
            /\ tres.groups[1] = Humanize(AfterLast(segs[1], "."))
            /\ \A i \in 2..(k - 1) : tres.groups[i] = Humanize(segs[i])
            /\ \/ "." \notin Range(last) /\ tres.groups[k] = Humanize(last)
               \/ \E d \in 0..(Len(last) - 1) :
                     At(last, d) = "." /\ tres.groups[k] = Humanize(Slice(last, 0, d))
            /\ (tst.Name = NestedTestName /\ tst.Type = NestedTestType) =>
                  /\ tres.groups = <<<<"T", "e", "s", "t", " ", "c", "l", "a", "s", "s">>, <<"M", "e", "t", "h", "o", "d">>, <<"S", "c", "e", "n", "a", "r", "i", "o">>, <<"S", "u", "b", " ", "s", "c", "e", "n", "a", "r", "i", "o">>>>
                  /\ tres.name = <<"R", "e", "s", "u", "l", "t">>

\* C4's case: the nested test of TestLoad, with its four segments.
C4_Witness ==
    /\ tpc = "done"
    /\ tst.Name = NestedTestName
    /\ tst.Type = NestedTestType
    /\ Len(tres.groups) = Len(Segments(tst.Name))

\* C5 as stated: the last label of a nested test's path is made from the
\* part of the last segment before that segment's final '.'.
C5_TerminalBeforeFinalDot ==
    (tpc = "done" /\ ClaimNested(tst) /\ "." \in Range(Segments(tst.Name)[Len(Segments(tst.Name))])) =>
        LET segs == Segments(tst.Name)
        IN  tres.groups[Len(tres.groups)] = Humanize(BeforeLast(segs[Len(segs)], "."))

\* C5, amended: the last label of a nested test's path is made from the
\* part of the last segment before that segment's first '.' (the whole
\* segment when it has none).
C5_TerminalBeforeFirstDot ==
    (tpc = "done" /\ ClaimNested(tst)) =>
        LET segs == Segments(tst.Name)
        IN  tres.groups[Len(tres.groups)] = Humanize(BeforeFirst(segs[Len(segs)], "."))

\* C5's case: a nested test whose last segment has two '.' and for which
\* the two readings give different labels.
C5_Witness ==
    /\ tpc = "done"
    /\ ClaimNested(tst)
    /\ LET last == Segments(tst.Name)[Len(Segments(tst.Name))]
       IN  /\ Cardinality({d \in DOMAIN last : last[d] = "."}) >= 2
           /\ Humanize(BeforeFirst(last, ".")) # Humanize(BeforeLast(last, "."))

C8_SpaceMeansDisplayName ==
    (tpc = "done" /\ " " \in Range(tst.Name)) =>
        /\ tres.display
        /\ tres.name = tst.Name

\* C9: the tokens of a non-empty input, put together in order, are the input.
C9_Lossless ==
    (spc = "done" /\ isValid(v)) =>
        LET RECURSIVE Concat(_)
            Concat(ws) == IF Len(ws) = 0 THEN <<>> ELSE ws[1] \o Concat(Tail(ws))
        IN  Concat(words) = v

\* C10: on letters, digits and whitespace, a token that starts at the first
\* letter of a run of two or more uppercase letters is the whole run, or
\* the run without its last letter when a lowercase letter follows the run.
C10_UppercaseRunIsOneToken ==
    (spc = "done" /\ isValid(v) /\ "." \notin Range(v)) =>
        \A i \in DOMAIN wordIndexes :
            LET start == IF i = 1 THEN 0 ELSE wordIndexes[i - 1]
                runEnd == Min({j \in start..Len(v) : j = Len(v) \/ ~IsUpper(At(v, j))})
            IN  ( /\ IsUpper(At(v, start))
                  /\ (start = 0 \/ ~IsUpper(At(v, start - 1)))
                  /\ runEnd - start >= 2 ) =>
                    IF runEnd < Len(v) /\ IsLower(At(v, runEnd))
                    THEN wordIndexes[i] = runEnd - 1
                    ELSE wordIndexes[i] = runEnd

\* The kind of the character that holds the byte at i of the valid text s:
\* a byte above 0x7F belongs to the character its lead byte starts, and of
\* the characters of the model only U+00A0 (xC2 xA0) is whitespace there.
CharKind(s, i) ==
    LET p == Max({j \in 0..i : ~IsCont(At(s, j))})
        c == At(s, p)
    IN  IF c \in Range(UpperChars) \cup Range(LowerChars) THEN "letter"
        ELSE IF c \in Range(DigitChars) THEN "digit"
        ELSE IF c = " " THEN "space"
        ELSE IF c = "xC2" /\ At(s, p + 1) = "xA0" THEN "space"
        ELSE "other"

\* The bytes a..b-1 of s are a maximal run of characters of the kind k.
IsMaximalRun(s, a, b, k) ==
    /\ a < b
    /\ \A i \in a..(b - 1) : CharKind(s, i) = k
    /\ a = 0 \/ CharKind(s, a - 1) # k
    /\ b = Len(s) \/ CharKind(s, b) # k

\* Split returned the bytes a..b-1 of v as one token.
IsToken(a, b) ==
    \E i \in DOMAIN wordIndexes :
        /\ (IF i = 1 THEN 0 ELSE wordIndexes[i - 1]) = a
        /\ wordIndexes[i] = b
        /\ i <= Len(words)
        /\ words[i] = Slice(v, a, b)

\* C11: on an input of letters, digits and whitespace, every maximal run of
\* digits and every maximal run of whitespace is one token of the result.
C11_DigitAndSpaceRunsAreTokens ==
    ( /\ spc = "done"
      /\ isValid(v)
      /\ \A i \in 0..(Len(v) - 1) : CharKind(v, i) # "other" ) =>
        \A a \in 0..Len(v), b \in 0..Len(v) :
            (IsMaximalRun(v, a, b, "digit") \/ IsMaximalRun(v, a, b, "space")) =>
                IsToken(a, b)

\* C12: Split of the empty string and of a string that is not valid UTF-8
\* returns the input as its one element, and never scans it.
C12_InvalidInputIsReturnedWhole ==
    (v = <<>> \/ ~ValidString(v)) =>
        /\ spc # "scan"
        /\ pos = 0
        /\ wordIndexes = <<>>
        /\ spc = "done" => words = <<v>>

\* C12's case: Split has returned on a non-empty string that is not valid
\* UTF-8 and whose first byte is a letter.
C12_Witness ==
    /\ spc = "done"
    /\ Len(v) >= 2
    /\ ~ValidString(v)
    /\ v[1] = "B"
    /\ words = <<v>>

----------------------------------------------------------------------------
(* What the claims speak of, for one Transform.                            *)

\* The lowercase letter of an uppercase ASCII letter, any other byte itself.
LowerOf(c) ==
    IF \E i \in DOMAIN UpperChars : UpperChars[i] = c
    THEN LowerChars[CHOOSE i \in DOMAIN UpperChars : UpperChars[i] = c]
    ELSE c

\* Where the i-th word starts in the sentence (0-based).
RECURSIVE WordOffset(_)
WordOffset(i) == IF i = 1 THEN 0 ELSE WordOffset(i - 1) + Len(sv[i - 1]) + 1

\* C14: Transform returns its words joined by single spaces, the first one
\* as it is, a later one as it is when it equals a noTransform argument and
\* lower-cased otherwise; no words give the empty string.
C14_TransformJoinsWords ==
    gpc = "done" =>
        /\ Len(sv) = 0 => sentence = <<>>
        /\ Len(sv) > 0 => Len(sentence) = WordOffset(Len(sv)) + Len(sv[Len(sv)])
        /\ \A i \in DOMAIN sv :
              /\ \A k \in DOMAIN sv[i] :
                    sentence[WordOffset(i) + k] =
                        IF i = 1 \/ sv[i] \in noTr THEN sv[i][k] ELSE LowerOf(sv[i][k])
              /\ i < Len(sv) => sentence[WordOffset(i) + Len(sv[i]) + 1] = " "
        /\ (sv = CollectionWords /\ noTr = {}) =>
              sentence = <<"A", " ", "c", "o", "l", "l", "e", "c", "t", "i", "o", "n", " ", "o", "f", " ", "w", "o", "r", "d", "s">>

\* C14's case: TestName's words "An", "HTTP", "&", "SqlQuery" with "HTTP"
\* and "SqlQuery" not to be transformed.
C14_Witness ==
    /\ gpc = "done"
    /\ sv = HTTPWords
    /\ noTr = {HTTPWords[2], HTTPWords[4]}
    /\ sentence = <<"A", "n", " ", "H", "T", "T", "P", " ", "&", " ", "S", "q", "l", "Q", "u", "e", "r", "y">>

----------------------------------------------------------------------------
(* What the claims speak of, for the calls of Load.                        *)

Finished(c) == lpc[c] = "done"

\* The document the reader of call c holds, when it holds one.
DocOf(c) == rdr[c].doc

\* C15: Load on an empty stream or on text that is no XML returns an error;
\* with an error it returns the zero TestRun, and a TestRun that readResult
\* built comes with a nil error.
C15_ErrorMeansZeroTestRun ==
    \A c \in Calls :
        Finished(c) =>
            /\ rdr[c].kind \in {"empty", "text"} => ret[c].err # "nil"
            /\ ret[c].err # "nil" => ret[c].run = ZeroTestRun
            /\ ~ret[c].run.Assemblies.isNil => ret[c].err = "nil"
            /\ rdr[c].kind = "xml" => (ret[c].err = "nil" /\ ~ret[c].run.Assemblies.isNil)

\* C15's case: one call has returned on an empty stream, the other on text
\* that is no XML, both with an error.
C15_Witness ==
    /\ Finished(1) /\ rdr[1].kind = "empty" /\ ret[1].err = "DecodeError"
    /\ Finished(2) /\ rdr[2].kind = "text" /\ ret[2].err = "DecodeError"

\* C16: after a successful Load the Assemblies slice is not nil, also for a
\* document without assemblies, and the TestGroups slice of every assembly
\* is not nil and is empty when the assembly's collections hold no test.
C16_EmptyIsNotNil ==
    \A c \in Calls :
        (Finished(c) /\ ret[c].err = "nil") =>
            LET out == ret[c].run.Assemblies
            IN  /\ ~out.isNil
                /\ Len(out.elems) = Len(DocOf(c).Assemblies)
                /\ \A i \in DOMAIN out.elems :
                      /\ ~out.elems[i].TestGroups.isNil
                      /\ ~hasTests(DocOf(c).Assemblies[i].Collections)
                            => out.elems[i].TestGroups.elems = <<>>

\* C16's case: one call has returned on a document without assemblies, the
\* other on the document whose assemblies have no collection and a
\* collection without tests.
C16_Witness ==
    /\ Finished(1) /\ rdr[1].kind = "xml" /\ DocOf(1).Assemblies = <<>>
    /\ ret[1].run.Assemblies.elems = <<>>
    /\ Finished(2) /\ rdr[2].kind = "xml" /\ DocOf(2) = SimpleDocument
    /\ Len(ret[2].run.Assemblies.elems) = 2

\* C17: two calls of Load on the same bytes return equal values.
C17_SameBytesSameTestRun ==
    (Finished(1) /\ Finished(2) /\ rdr[1] = rdr[2]) => ret[1] = ret[2]

\* C17's case: both calls have returned on the same document, which has an
\* assembly with three top-level groups.
C17_Witness ==
    /\ Finished(1) /\ Finished(2)
    /\ rdr[1] = rdr[2]
    /\ rdr[1].kind = "xml"
    /\ \E i \in DOMAIN ret[1].run.Assemblies.elems :
          Len(ret[1].run.Assemblies.elems[i].TestGroups.elems) >= 3

\* C18: however the steps of the two calls interleave, each call returns
\* what Load returns for its stream when it runs alone.
C18_CallsDoNotInterfere ==
    \A c \in Calls : Finished(c) => ret[c] = LoadAlone(rdr[c])

\* C18's case: both calls have returned, on different documents that both
\* have tests.
C18_Witness ==
    /\ Finished(1) /\ Finished(2)
    /\ rdr[1].kind = "xml" /\ rdr[2].kind = "xml"
    /\ rdr[1] # rdr[2]
    /\ \A c \in Calls :
          \E i \in DOMAIN ret[c].run.Assemblies.elems :
              Len(ret[c].run.Assemblies.elems[i].TestGroups.elems) >= 2

\* The traits with an empty name or value of the i-th assembly of call c.
EmptyPartTraits(c, i) ==
    LET ts == Flatten(DocOf(c).Assemblies[i].Collections)
    IN  {tr \in UNION {Range(ts[k].Traits) : k \in DOMAIN ts} :
             tr.Name = <<>> \/ tr.Value = <<>>}

\* The names of the top-level groups of the i-th assembly call c returned.
GroupNames(c, i) ==
    LET gs == ret[c].run.Assemblies.elems[i].TestGroups.elems
    IN  {gs[k].Name : k \in DOMAIN gs}

\* C19 as stated: the key of a trait with an empty name or value contains
\* " -  ", with two spaces after the dash.
C19_EmptyPartGivesDoubleSpace ==
    \A c \in Calls :
        (Finished(c) /\ ret[c].err = "nil") =>
            \A i \in DOMAIN DocOf(c).Assemblies :
                \A tr \in EmptyPartTraits(c, i) :
                    \E key \in GroupNames(c, i) :
                        /\ SubSeq(key, 1, Len(tr.Name)) = tr.Name
                        /\ Contains(key, <<" ", "-", " ", " ">>)

\* C19, amended: the key of a trait with an empty name or value is the
\* name, " - " and the value, with one space on each side of the dash and
\* no two spaces in a row coming from the separator.
C19_EmptyPartGivesSingleSpaces ==
    \A c \in Calls :
        (Finished(c) /\ ret[c].err = "nil") =>
            \A i \in DOMAIN DocOf(c).Assemblies :
                \A tr \in EmptyPartTraits(c, i) :
                    /\ RenderedKey(tr) \in GroupNames(c, i)
                    /\ \A key \in GroupNames(c, i) :
                          ~Contains(key, <<" ", "-", " ", " ">>)

\* C19's case: a call has returned an assembly with the groups "C - " (no
\* value) and " - U" (no name).
C19_Witness ==
    \E c \in Calls :
        /\ Finished(c) /\ ret[c].err = "nil"
        /\ \E i \in DOMAIN ret[c].run.Assemblies.elems :
              /\ <<"C", " ", "-", " ">> \in GroupNames(c, i)
              /\ <<" ", "-", " ", "U">> \in GroupNames(c, i)

----------------------------------------------------------------------------
\* C20: Equal calls tb.Fatalf when got and want differ, does nothing when
\* they are equal, and never panics, whatever name and msg are.
C20_EqualFailsOrReturns ==
    /\ apc # "panic"
    /\ apc = "done" => (tb.failed <=> args.got # args.want)

\* C21: in main, Load is not called when opening the file failed, and once
\* Load has returned an error no field of the TestRun it returned is read:
\* the last line printed is the report of the error.
C21_NoReadAfterLoadError ==
    /\ mainRes.openErr # "nil" => ~mainRes.loadCalled
    /\ (mainRes.loadCalled /\ mainRes.err # "nil") =>
           /\ reads = {}
           /\ stdout[Len(stdout)] = "Error encountered ..."

\* C28: two tests whose traits differ in name or in value are indexed under
\* two keys of testMap: no two traits render to the same group key.
C28_TraitKeysAreInjective ==
    (kpc = "done" /\ pair[1] # pair[2]) => Cardinality(DOMAIN traitMap) = 2

\* The sum of f over the set S of its arguments.
RECURSIVE SumOver(_, _)
SumOver(f, S) ==
    IF S = {} THEN 0
    ELSE LET x == CHOOSE y \in S : TRUE IN f[x] + SumOver(f, S \ {x})

\* The number of test cases in the subtree of the group g.
CasesBelow(g) == SumOver([n \in Subtree(g) |-> Len(heap[n].Tests)], Subtree(g))

\* C22: in the finished report the subtree of every top-level group holds as
\* many test cases as tests were indexed under its trait key, and all the
\* top-level groups together hold max(1, number of traits) test cases per test.
C22_NoTestLostOrDuplicated ==
    pc = "done" =>
        /\ \A i \in DOMAIN resultSet :
              CasesBelow(resultSet[i]) = Len(testMap[heap[resultSet[i]].Name])
        /\ SumOver([r \in Roots |-> CasesBelow(r)], Roots)
               = SumOver([id \in DOMAIN Tests |-> Max({1, Len(Tests[id].Traits)})],
                         DOMAIN Tests)

\* C22's case: a finished report with a nested test case below a top-level
\* group that also holds a test case of its own, of an assembly in which a
\* test has two traits.
C22_Witness ==
    /\ pc = "done"
    /\ \E id \in DOMAIN Tests : Len(Tests[id].Traits) = 2
    /\ \E r \in Roots :
          /\ Len(heap[r].Tests) > 0
          /\ \E n \in Subtree(r) \ {r} : Len(heap[n].Tests) > 0

\* The place in the assembly of the first test that has a test case in the
\* subtree of the group g.
FirstTest(g) ==
    Min(UNION {{heap[n].Tests[i].id : i \in DOMAIN heap[n].Tests} : n \in Subtree(g)})

\* C23: in the finished report the test cases of every group stand in the
\* order of their tests in the assembly, and the child groups of every group
\* stand in the order of their first tests.
C23_DocumentOrderIsKept ==
    pc = "done" =>
        \A g \in DOMAIN heap :
            /\ \A i, j \in DOMAIN heap[g].Tests :
                  i < j => heap[g].Tests[i].id <= heap[g].Tests[j].id
            /\ \A i, j \in DOMAIN heap[g].Groups :
                  i < j => FirstTest(heap[g].Groups[i]) < FirstTest(heap[g].Groups[j])

\* C23's case: a finished report in which a group has the test cases of two
\* tests and a group has two child groups.
C23_Witness ==
    /\ pc = "done"
    /\ \E g \in DOMAIN heap :
          \E i, j \in DOMAIN heap[g].Tests : heap[g].Tests[i].id # heap[g].Tests[j].id
    /\ \E g \in DOMAIN heap : Len(heap[g].Groups) >= 2

\* C24: a test with a non-empty name has a non-empty friendly name, whatever
\* its type is and however its name ends.
C24_FriendlyNameIsNotEmpty ==
    (tpc = "done" /\ Len(tst.Name) > 0) => Len(tres.name) > 0

\* The name of t before its parameter list.
BeforeArgs(t) == BeforeFirst(t.Name, "(")

\* t.Name is <type>.<Method>(<args>): it has a parameter list, and what
\* stands before the list is the type followed by '.' and a method name, or
\* the type itself when the type ends in '.' and the method name.
HasParameterForm(t) ==
    LET P == BeforeArgs(t)
    IN  /\ "(" \in Range(t.Name)
        /\ "." \in Range(P)
        /\ Len(t.Type) <= Len(P)
        /\ Slice(P, 0, Len(t.Type)) = t.Type
        /\ Len(t.Type) < Len(P) => P[Len(t.Type) + 1] = "."
        /\ Len(AfterLast(P, ".")) > 0

\* C26: the friendly name of a test named <type>.<Method>(<args>) is the
\* humanized Method, whatever the text of <args> is.
C26_ArgumentsDoNotMatter ==
    (tpc = "done" /\ HasParameterForm(tst)) =>
        tres.name = Humanize(AfterLast(BeforeArgs(tst), "."))

\* The scan of Split advances: the end position computed at pos is at least
\* pos and less than len(v), and the indexes recorded so far are strictly
\* increasing, within 1..len(v) and at most pos.
ScanAdvances ==
    /\ (spc = "scan" /\ pos < Len(v)) => (pos <= EndPos(v, pos) /\ EndPos(v, pos) < Len(v))
    /\ \A i \in DOMAIN wordIndexes :
          /\ 1 <= wordIndexes[i] /\ wordIndexes[i] <= Len(v) /\ wordIndexes[i] <= pos
          /\ i > 1 => wordIndexes[i - 1] < wordIndexes[i]

NoEmptyToken == spc = "done" => \A i \in DOMAIN words : Len(words[i]) > 0

\* C27: Split returns on every input; while it scans, every end position is
\* at least the scan position and less than len(v), the recorded indexes are
\* strictly increasing within 1..len(v), and no returned token is empty.
C27_SplitTerminates ==
    /\ <>(spc = "done")
    /\ [](ScanAdvances /\ NoEmptyToken)

\* C27 with the empty input set apart: Split returns on every input and its
\* scan advances as above; no returned token is empty unless the input is
\* empty, for which Split returns the one token "".
C27_SplitTerminatesEmptyApart ==
    /\ <>(spc = "done")
    /\ [](/\ ScanAdvances
          /\ Len(v) > 0 => NoEmptyToken
          /\ (spc = "done" /\ Len(v) = 0) => words = << <<>> >>)

\* C27's case: Split has returned three tokens after a scan that took the
\* "idx - 2" branch of getWordEndPos at position 0 ("ABa.": "A", "Ba").
C27_Witness ==
    /\ spc = "done"
    /\ isValid(v)
    /\ Len(v) = 4
    /\ IsUpper(At(v, 0)) /\ IsUpper(At(v, 1)) /\ IsLower(At(v, 2))
    /\ wordIndexes[1] = 1
    /\ Len(words) >= 2

AsciiLetters == Range(UpperChars) \cup Range(LowerChars)

\* C25: when the input has ASCII letters only, no token has a lowercase
\* letter with an uppercase letter right after it.
C25_BoundaryAfterLowercase ==
    (spc = "done" /\ Range(v) \subseteq AsciiLetters) =>
        \A i \in DOMAIN words :
            \A d \in 1..(Len(words[i]) - 1) :
                ~(words[i][d] \in Range(LowerChars) /\ words[i][d + 1] \in Range(UpperChars))

\* C30: when the input is valid UTF-8, every token is valid UTF-8 and the
\* tokens together hold every byte of every multi-byte character.
C30_TokensAreValidUTF8 ==
    (spc = "done" /\ isValid(v)) =>
        /\ \A i \in DOMAIN words : ValidString(words[i])
        /\ \A p \in 0..(Len(v) - 1) :
              At(v, p) \in Range(HighBytes) =>
                  \E i \in DOMAIN wordIndexes :
                      (IF i = 1 THEN 0 ELSE wordIndexes[i - 1]) <= p /\ p < wordIndexes[i]

\* The names of the test cases in the group value g and in the groups below it.
RECURSIVE CaseNames(_)
CaseNames(g) ==
    {g.Tests[i].Name : i \in DOMAIN g.Tests}
    \cup UNION {CaseNames(g.Groups[i]) : i \in DOMAIN g.Groups}

\* The friendly names of the tests in the collections of the assembly element a.
OwnNames(a) ==
    {testFriendlyName(Flatten(a.Collections)[i]) : i \in DOMAIN Flatten(a.Collections)}

\* C29: at every moment of readResult the assemblies built so far are, in
\* document order, what groupTests gives for each input assembly on its own:
\* their groups hold test cases of their own tests only, building a later
\* assembly does not change them, and the finished TestRun has one Assembly
\* per input assembly.
C29_AssembliesAreGroupedAlone ==
    \A c \in Calls :
        (rdr[c].kind = "xml" /\ lpc[c] \in {"read", "keys", "done"}) =>
            LET built == testRun[c].Assemblies.elems
                input == DocOf(c).Assemblies
            IN  /\ Len(built) <= Len(input)
                /\ lpc[c] # "done" => Len(built) = result[c].idx - 1
                /\ lpc[c] = "done" => Len(built) = Len(input)
                /\ \A i \in DOMAIN built :
                      /\ built[i] = OutAssembly(input[i], GroupsAlone(input[i]))
                      /\ \A k \in DOMAIN built[i].TestGroups.elems :
                            CaseNames(built[i].TestGroups.elems[k]) \subseteq OwnNames(input[i])

\* C29's case: a call has built two assemblies with tests from a document
\* whose two assemblies differ.
C29_Witness ==
    \E c \in Calls :
        /\ lpc[c] = "done"
        /\ Len(testRun[c].Assemblies.elems) = 2
        /\ DocOf(c).Assemblies[1] # DocOf(c).Assemblies[2]
        /\ \A i \in 1..2 : Len(testRun[c].Assemblies.elems[i].TestGroups.elems) >= 2

====
